---- MODULE Spec2Model ----
(***************************************************************************)
(* Bribery-market simulation (GottfriedHerold/MarketSim).                  *)
(*                                                                         *)
(* Spec        : one Market (bid book + balance sheets) driven through     *)
(*               __init__, place_bid, make_payment, get_auction_winner,    *)
(*               and one Runner driven through __init__ and process_epoch. *)
(* SpecAuction : EqualSecondPriceMarket._determine_auction_winner applied  *)
(*               to bounded bid books, sides and proposers.                *)
(* SpecBalance : Balance.total_balance over bounded field assignments.     *)
(*                                                                         *)
(* An operation that raises leaves the exception's name in op.result; the  *)
(* run is then over (no operation is enabled after a fault).  Whatever the *)
(* operation wrote before raising stays written.                           *)
(***************************************************************************)
EXTENDS Integers, Sequences, FiniteSets, TLC

VARIABLES
    market_class,      \* "none" before Market.__init__, then the concrete class
    stake_dist,        \* Market.stake_dist: the class of the distribution
    participants,      \* Market._participants (list of clusters)
    balance_sheets,    \* Market.balance_sheets : cluster -> Balance
    standing_bids,     \* Market.standing_bids  : cluster -> Bid or None
    EPOCH_SIZE,        \* Market.EPOCH_SIZE
    runner,            \* Runner fields, or NoRunner before Runner.__init__
    op,                \* the last call: name, arguments, result
    steps,             \* number of calls made on the constructed market
    dists,             \* the stake distributions built so far, oldest first
    randoms,           \* the random.Random objects: seed and current state
    samplers,          \* the cluster samplers (generators) created so far
    heap,              \* the Balance objects of the markets in markets
    markets,           \* Market instances that live side by side
    b                  \* SpecBalance: the Balance under test

vars == <<market_class, stake_dist, participants, balance_sheets, standing_bids,
          EPOCH_SIZE, runner, op, steps, b, dists, randoms, samplers, heap, markets>>

marketVars == <<market_class, stake_dist, participants, balance_sheets, standing_bids,
                EPOCH_SIZE>>

distVars == <<dists, randoms, samplers>>
instanceVars == <<heap, markets>>

----------------------------------------------------------------------------
(* Bounds *)

MaxSteps == 2          \* calls made after construction
SmallEpoch == 1        \* epoch_size override passed to Market.__init__
MaxAmount == 2         \* largest amount passed to make_payment
MaxPay == 2            \* SpecAuction: largest willing_to_pay
MaxRep == 1            \* SpecAuction: largest reputation_value
MaxSide == 2           \* SpecAuction: longest side handed to the mechanism
MaxField == 2          \* SpecBalance: largest value assigned to a Balance field
MaxBidders == 4        \* SpecSide: longest list handed to maximum_bid_by_side
MaxBidValue == 4       \* SpecSide: largest payment in that list
MaxEpochs == 1         \* SpecEpoch: epochs the runner processes
MaxStake == 2          \* SpecDist: largest cluster size in a stake map
MaxCount == 2          \* SpecDist: largest number of clusters of one size
MaxFactor == 2         \* SpecDist: largest reputation factor
MaxDists == 2          \* SpecFraction: distributions built side by side
MaxSeed == 1           \* SpecSampler: largest seed of a Random
MaxDraws == 4          \* SpecSampler: clusters drawn, all samplers together
MaxObjects == 2        \* SpecRemove: objects that the two lists may hold
MaxList == 2           \* SpecRemove: longest list handed to remove_duplicates

----------------------------------------------------------------------------
(* Clusters.  get_clusters is the list the stake distribution returns; the *)
(* outsider is a Cluster object that belongs to no distribution.           *)

get_clusters == <<"c1", "c2">>
Outsider == "x"
NoCluster == "None"

Range(s) == {s[i] : i \in 1..Len(s)}
AllClusters == Range(get_clusters) \cup {Outsider}

----------------------------------------------------------------------------
(* Bids *)

None == [type |-> "None"]
Bid == [type |-> "Bid"]
EqualSecondPriceBid(w, r, v) ==
    [type |-> "EqualSecondPriceBid", willing_to_pay |-> w,
     willing_to_receive_bribes |-> r, reputation_value |-> v]

minimum_gain(bid) == bid.reputation_value
valuation_of_own_slots(bid) == bid.willing_to_pay

\* bids handed to place_bid / initial_bids in Spec
SomeBids == {Bid, EqualSecondPriceBid(1, TRUE, 0)}
BidsOrNone == SomeBids \cup {None}

----------------------------------------------------------------------------
(* Balance *)

Balance ==
    [payed |-> 0, received |-> 0, capital_locked |-> 0, capital_cost |-> 0,
     transaction_costs |-> 0, extra_slot_earnings |-> 0, extra_slot_costs |-> 0,
     reputation |-> 0, reputation_factor |-> 1, participated |-> FALSE]

reputation_cost(bal) == bal.reputation * bal.reputation_factor

\* total_balance that also charges the locked capital
total_balance_charging_locked(bal) ==
    (bal.received - bal.payed - bal.capital_cost - bal.transaction_costs
     + bal.extra_slot_earnings - bal.extra_slot_costs - reputation_cost(bal)
     - bal.capital_locked)

total_balance(bal) ==
    (bal.received - bal.payed - bal.capital_cost - bal.transaction_costs
     + bal.extra_slot_earnings - bal.extra_slot_costs - reputation_cost(bal))

MoneyFields == {"payed", "received", "capital_locked", "capital_cost",
                "transaction_costs", "extra_slot_earnings", "extra_slot_costs",
                "reputation"}

----------------------------------------------------------------------------
(* DummyMarket.cost_for_bid: <<transaction_cost, capital_cost, new_reputation>> *)

cost_for_bid(old_bid, new_bid) ==
    IF old_bid = None /\ new_bid = None THEN <<0, 0, 0>>
    ELSE IF new_bid = None THEN <<1, 0, 1>>
    ELSE <<1, 10, 5>>

\* place_bid's bookkeeping on the bidder's sheet that resets the flag on a
\* withdrawal and adds up capital_cost
book_bid_flag_follows_bid(bal, bid, cost) ==
    [bal EXCEPT !.participated = (bid # None),
                !.transaction_costs = @ + cost[1],
                !.capital_cost = cost[2],
                !.reputation = cost[3]]

\* place_bid's bookkeeping with capital_cost accumulated instead of overwritten
book_bid_accumulating(bal, bid, cost) ==
    LET bal1 == IF bid # None THEN [bal EXCEPT !.participated = TRUE] ELSE bal
    IN  [bal1 EXCEPT !.transaction_costs = @ + cost[1],
                     !.capital_cost = @ + cost[2],
                     !.reputation = cost[3]]

\* place_bid's bookkeeping that locks the capital the bid requires
book_bid_locking_capital(bal, bid, cost) ==
    LET bal1 == IF bid # None THEN [bal EXCEPT !.participated = TRUE] ELSE bal
    IN  [bal1 EXCEPT !.transaction_costs = @ + cost[1],
                     !.capital_locked = cost[2],
                     !.capital_cost = cost[2],
                     !.reputation = cost[3]]

\* Market.place_bid, the part after the bid book is updated: flag the bidder
\* and book cost == cost_for_bid(old_bid, bid) on its sheet
book_bid(bal, bid, cost) ==
    LET bal1 == IF bid # None THEN [bal EXCEPT !.participated = TRUE] ELSE bal
    IN  [bal1 EXCEPT !.transaction_costs = @ + cost[1],
                     !.capital_cost = cost[2],
                     !.reputation = cost[3]]

\* a bid book update that overwrites every entry
set_bid_everywhere(sb, cluster, bid) == [c \in DOMAIN sb |-> bid]

\* self.standing_bids[cluster] = bid
set_bid(sb, cluster, bid) == [sb EXCEPT ![cluster] = bid]

(* Market.place_bid as a function of the two maps.  The result carries the *)
(* maps as the call leaves them and the exception it raised, if any.       *)
place_bid(sb, bs, parts, bid, cluster) ==
    IF cluster \notin Range(parts)
    THEN [sb |-> sb, bs |-> bs, result |-> "AssertionError"]
    ELSE IF cluster \notin DOMAIN sb
    THEN [sb |-> sb, bs |-> bs, result |-> "KeyError"]
    ELSE
      LET old_bid == sb[cluster]
          sb1 == set_bid(sb, cluster, bid)
      IN  IF cluster \notin DOMAIN bs
          THEN [sb |-> sb1, bs |-> bs, result |-> "KeyError"]
          ELSE [sb |-> sb1,
                bs |-> [bs EXCEPT ![cluster] =
                          book_bid(bs[cluster], bid, cost_for_bid(old_bid, bid))],
                result |-> "ok"]

----------------------------------------------------------------------------
(* Market.__init__ *)

Some(v) == [type |-> "Some", value |-> v]

DEFAULT_EPOCH_SIZE == 32

\* a Balance as a caller may pass it in initial_balances
UsedBalance ==
    [Balance EXCEPT !.payed = 5, !.capital_locked = 1, !.capital_cost = 4,
                    !.reputation = 4]

Maps(K, V) == [K -> V]

\* the key sets a caller-supplied dict may have: every cluster of the
\* distribution, or only its first cluster
KeySets == {Range(get_clusters), {get_clusters[1]}}

InitialBidsArgs ==
    {None} \cup UNION {Maps(K, {None, Bid}) : K \in KeySets}
InitialBidFuncArgs == {None, Bid}
InitialBalancesArgs ==
    {None} \cup UNION {Maps(K, {UsedBalance}) : K \in KeySets}
PayArgs == {"None", "True", "False"}
EpochSizeArgs == {None, Some(SmallEpoch)}
MarketClasses == {"DummyMarket", "EqualSecondPriceMarket"}

\* the loop "for c in self.participants: self.place_bid(bid_of(c), c)",
\* from index i on; bids is a dict, or a factory's product for every cluster
RECURSIVE place_all(_, _, _, _, _)
place_all(st, parts, bids, is_dict, i) ==
    IF i > Len(parts) \/ st.result # "ok" THEN st
    ELSE LET c == parts[i]
         IN  IF is_dict /\ c \notin DOMAIN bids
             THEN [st EXCEPT !.result = "KeyError"]
             ELSE place_all(place_bid(st.sb, st.bs, parts,
                                      IF is_dict THEN bids[c] ELSE bids, c),
                            parts, bids, is_dict, i + 1)

\* fresh sheets that already carry the participated flag
flagged_balance_sheets(parts) ==
    [c \in Range(parts) |-> [Balance EXCEPT !.participated = TRUE]]

\* {c: Balance() for c in self._participants}
fresh_balance_sheets(parts) == [c \in Range(parts) |-> Balance]

\* only the clash of the two sources of bids is tested
conflicting_bid_options(initial_bids, initial_bid_func, initial_balances, pay_arg) ==
    initial_bids # None /\ initial_bid_func # None

\* the two tests that open Market.__init__
conflicting_options(initial_bids, initial_bid_func, initial_balances, pay_arg) ==
    \/ initial_bids # None /\ initial_bid_func # None
    \/ initial_balances # None /\ pay_arg = "None"

\* the state Market.__init__ builds, with the exception it raises (if any)
market_init(epoch_size, initial_bids, initial_bid_func, initial_balances, pay_arg) ==
    IF conflicting_options(initial_bids, initial_bid_func, initial_balances, pay_arg)
    THEN [result |-> "ValueError"]
    ELSE
      LET pay_for_initial_bids == IF pay_arg = "None" THEN TRUE ELSE pay_arg = "True"
          parts == get_clusters
          bs0 == IF initial_balances = None
                 THEN fresh_balance_sheets(parts)
                 ELSE initial_balances
          sb0 == [c \in Range(parts) |-> None]
          st0 == [sb |-> sb0, bs |-> bs0, result |-> "ok"]
          st1 == IF initial_bid_func = None THEN st0
                 ELSE IF pay_for_initial_bids
                      THEN place_all(st0, parts, initial_bid_func, FALSE, 1)
                      ELSE [st0 EXCEPT !.sb = [c \in Range(parts) |-> initial_bid_func]]
          st2 == IF initial_bids = None \/ st1.result # "ok" THEN st1
                 ELSE IF pay_for_initial_bids
                      THEN place_all(st1, parts, initial_bids, TRUE, 1)
                      ELSE [st1 EXCEPT !.sb = initial_bids]
      IN  [result |-> st2.result, participants |-> parts,
           balance_sheets |-> st2.bs, standing_bids |-> st2.sb,
           EPOCH_SIZE |-> IF epoch_size = None THEN DEFAULT_EPOCH_SIZE
                          ELSE epoch_size.value]

\* The market is driven only while the last call returned normally and wrote
\* state (get_auction_winner writes nothing, so a run that goes on after it
\* continues from the state before it), and only if it was built with the
\* epoch_size override: the default of 32 asks for sides of 32 clusters.
Driven ==
    /\ market_class # "none"
    /\ op.result = "ok"
    /\ op.name # "get_auction_winner"
    /\ EPOCH_SIZE <= SmallEpoch
    /\ steps < MaxSteps

NoRunner == [type |-> "None"]
NoDistributions == dists = <<>> /\ randoms = <<>> /\ samplers = <<>>
NoInstances == heap = <<>> /\ markets = <<>>
NoOp == [name |-> "none", result |-> "ok"]
NoBalance == Balance

MarketInit ==
    /\ market_class = "none"
    /\ op.result = "ok"
    /\ \E cls \in MarketClasses, epoch_size \in EpochSizeArgs,
          initial_bids \in InitialBidsArgs, initial_bid_func \in InitialBidFuncArgs,
          initial_balances \in InitialBalancesArgs, pay_arg \in PayArgs :
         LET m == market_init(epoch_size, initial_bids, initial_bid_func,
                              initial_balances, pay_arg)
         IN  /\ op' = [name |-> "Market.__init__", cls |-> cls, epoch_size |-> epoch_size,
                       initial_bids |-> initial_bids,
                       initial_bid_func |-> initial_bid_func,
                       initial_balances |-> initial_balances,
                       pay_for_initial_bids |-> pay_arg, result |-> m.result]
             /\ IF m.result = "ok"
                THEN /\ market_class' = cls
                     /\ stake_dist' = "NewStakeDistribution"
                     /\ participants' = m.participants
                     /\ balance_sheets' = m.balance_sheets
                     /\ standing_bids' = m.standing_bids
                     /\ EPOCH_SIZE' = m.EPOCH_SIZE
                ELSE UNCHANGED marketVars
    /\ UNCHANGED <<runner, steps, b, distVars, instanceVars>>

----------------------------------------------------------------------------
(* Market.place_bid *)

PlaceBid ==
    /\ Driven
    /\ \E cluster \in AllClusters, bid \in BidsOrNone :
         LET r == place_bid(standing_bids, balance_sheets, participants, bid, cluster)
         IN  /\ standing_bids' = r.sb
             /\ balance_sheets' = r.bs
             /\ op' = [name |-> "place_bid", bid |-> bid, cluster |-> cluster,
                       old_bid |-> IF cluster \in DOMAIN standing_bids
                                   THEN standing_bids[cluster] ELSE None,
                       result |-> r.result]
    /\ steps' = steps + 1
    /\ UNCHANGED <<market_class, stake_dist, participants, EPOCH_SIZE, runner,
                   b, distVars, instanceVars>>

----------------------------------------------------------------------------
(* Market.make_payment *)

Amounts == {0 - 1, 0, MaxAmount}

\* make_payment crediting the sender instead of the receiver
make_payment_credits_sender(bs, sender, receiver, amount) ==
    IF \/ sender \notin DOMAIN bs
       \/ receiver \notin DOMAIN bs
       \/ ~(amount >= 0)
    THEN [bs |-> bs, result |-> "AssertionError"]
    ELSE IF ~bs[sender].participated \/ ~bs[receiver].participated
    THEN [bs |-> bs, result |-> "AssertionError"]
    ELSE LET bs1 == [bs EXCEPT ![sender].payed = @ + amount]
         IN  [bs |-> [bs1 EXCEPT ![sender].received = @ + amount], result |-> "ok"]

\* make_payment that books the sender's side before it checks the receiver
make_payment_checks_late(bs, sender, receiver, amount) ==
    IF \/ sender \notin DOMAIN bs
       \/ receiver \notin DOMAIN bs
       \/ ~(amount >= 0)
    THEN [bs |-> bs, result |-> "AssertionError"]
    ELSE IF ~bs[sender].participated
    THEN [bs |-> bs, result |-> "AssertionError"]
    ELSE LET bs1 == [bs EXCEPT ![sender].payed = @ + amount]
         IN  IF ~bs[receiver].participated
             THEN [bs |-> bs1, result |-> "AssertionError"]
             ELSE [bs |-> [bs1 EXCEPT ![receiver].received = @ + amount],
                   result |-> "ok"]

\* make_payment that debits the sender and credits nobody
make_payment_without_receipt(bs, sender, receiver, amount) ==
    IF \/ sender \notin DOMAIN bs
       \/ receiver \notin DOMAIN bs
       \/ ~(amount >= 0)
    THEN [bs |-> bs, result |-> "AssertionError"]
    ELSE IF ~bs[sender].participated \/ ~bs[receiver].participated
    THEN [bs |-> bs, result |-> "AssertionError"]
    ELSE [bs |-> [bs EXCEPT ![sender].payed = @ + amount], result |-> "ok"]

make_payment(bs, sender, receiver, amount) ==
    IF \/ sender \notin DOMAIN bs
       \/ receiver \notin DOMAIN bs
       \/ ~(amount >= 0)
    THEN [bs |-> bs, result |-> "AssertionError"]
    ELSE IF ~bs[sender].participated \/ ~bs[receiver].participated
    THEN [bs |-> bs, result |-> "AssertionError"]
    ELSE LET bs1 == [bs EXCEPT ![sender].payed = @ + amount]
         IN  [bs |-> [bs1 EXCEPT ![receiver].received = @ + amount], result |-> "ok"]

MakePayment ==
    /\ Driven
    /\ \E sender \in AllClusters, receiver \in AllClusters, amount \in Amounts :
         LET r == make_payment(balance_sheets, sender, receiver, amount)
         IN  /\ balance_sheets' = r.bs
             /\ op' = [name |-> "make_payment", sender |-> sender,
                       receiver |-> receiver, amount |-> amount, result |-> r.result]
    /\ steps' = steps + 1
    /\ UNCHANGED <<market_class, stake_dist, participants, standing_bids, EPOCH_SIZE,
                   runner, b, distVars, instanceVars>>

----------------------------------------------------------------------------
(* EqualSecondPriceMarket *)

\* the keys of a dict built by inserting the elements of s in order
RECURSIVE key_order(_)
key_order(s) ==
    IF s = <<>> THEN <<>>
    ELSE LET rest == key_order(SubSeq(s, 1, Len(s) - 1))
             x == s[Len(s)]
         IN  IF x \in Range(rest) THEN rest ELSE Append(rest, x)

count(s, x) == Cardinality({i \in 1..Len(s) : s[i] = x})

\* sorted(values, reverse=True)
RECURSIVE insert_desc(_, _)
insert_desc(x, s) ==
    IF s = <<>> THEN <<x>>
    ELSE IF x >= Head(s) THEN <<x>> \o s
    ELSE <<Head(s)>> \o insert_desc(x, Tail(s))

RECURSIVE sorted_desc(_)
sorted_desc(s) == IF s = <<>> THEN <<>> ELSE insert_desc(Head(s), sorted_desc(Tail(s)))

RECURSIVE max_of(_)
max_of(s) ==
    IF Len(s) = 1 THEN s[1]
    ELSE LET m == max_of(Tail(s)) IN IF s[1] >= m THEN s[1] ELSE m

\* the collective bid taken over the list as given, without sorting it
maximum_bid_by_side_unsorted(maximum_individual_payments) ==
    LET candidate_total_payments ==
            [i \in 1..Len(maximum_individual_payments) |->
                maximum_individual_payments[i] * i]
    IN  IF candidate_total_payments = <<>> THEN [result |-> "ValueError"]
        ELSE [result |-> "ok", value |-> max_of(candidate_total_payments)]

\* max() of an empty list raises ValueError
maximum_bid_by_side(maximum_individual_payments) ==
    LET maximum_individual_payments_sorted == sorted_desc(maximum_individual_payments)
        candidate_total_payments ==
            [i \in 1..Len(maximum_individual_payments) |->
                maximum_individual_payments_sorted[i] * i]
    IN  IF candidate_total_payments = <<>> THEN [result |-> "ValueError"]
        ELSE [result |-> "ok", value |-> max_of(candidate_total_payments)]

\* [x for x in s if x is not None], mapped to willing_to_pay
RECURSIVE bid_values(_)
bid_values(bids) ==
    IF bids = <<>> THEN <<>>
    ELSE IF Head(bids) = None THEN bid_values(Tail(bids))
    ELSE <<Head(bids).willing_to_pay>> \o bid_values(Tail(bids))

\* the payments dict built by "for c in side: payments[c] = ..."; a dict is a
\* function (payments) together with its keys in insertion order (payers)
side_payments_of_bidders(sb, side) ==
    [c \in {d \in Range(side) : sb[d] # None} |-> sb[c].willing_to_pay]

side_payments(sb, side) ==
    [c \in Range(side) |-> IF sb[c] # None THEN sb[c].willing_to_pay ELSE 0]

\* the value lists whose collective bids are compared: the reveal side's
\* bids, the proposer's bid and the proposer's valuation_of_own_slots on one
\* side, the miss side's bids on the other
reveal_side_values(sb, reveal_side, last_proposer_bid) ==
    bid_values([i \in 1..Len(reveal_side) |-> sb[reveal_side[i]]]
                 \o <<last_proposer_bid>>)
      \o <<valuation_of_own_slots(last_proposer_bid)>>

miss_side_values(sb, miss_side) ==
    bid_values([i \in 1..Len(miss_side) |-> sb[miss_side[i]]])

NoPayments == <<>>

\* EqualSecondPriceMarket._determine_auction_winner from the point where the
\* proposer is known to hold a bid that accepts bribes
contested_auction(sb, reveal_side, miss_side, last_proposer_bid) ==
    LET maximum_miss_side_collective_bid ==
            maximum_bid_by_side(miss_side_values(sb, miss_side))
        maximum_reveal_side_collective_bid ==
            maximum_bid_by_side(reveal_side_values(sb, reveal_side, last_proposer_bid))
    IN  IF maximum_miss_side_collective_bid.result # "ok"
        THEN [result |-> "ValueError"]
        ELSE
          LET should_reveal ==
                  maximum_reveal_side_collective_bid.value
                    + minimum_gain(last_proposer_bid)
                  > maximum_miss_side_collective_bid.value
          IN  IF should_reveal
              THEN [result |-> "ok", decision |-> "reveal",
                    payments |-> side_payments(sb, reveal_side),
                    payers |-> key_order(reveal_side)]
              ELSE [result |-> "ok", decision |-> "miss",
                    payments |-> side_payments(sb, miss_side),
                    payers |-> key_order(miss_side)]

\* the decision function without the exit for a proposer that declines bribes
determine_auction_winner_ignoring_refusal(sb, reveal_side, miss_side, last_slot_proposer) ==
    LET last_proposer_bid == sb[last_slot_proposer]
    IN  IF last_proposer_bid = None
        THEN [result |-> "ok", decision |-> "reveal", payments |-> NoPayments,
              payers |-> <<>>]
        ELSE contested_auction(sb, reveal_side, miss_side, last_proposer_bid)

\* EqualSecondPriceMarket._determine_auction_winner(reveal_side, miss_side,
\* randomness_source, last_slot_proposer) on the bid book sb
determine_auction_winner(sb, reveal_side, miss_side, last_slot_proposer) ==
    LET last_proposer_bid == sb[last_slot_proposer]
    IN  IF last_proposer_bid = None
        THEN [result |-> "ok", decision |-> "reveal", payments |-> NoPayments,
              payers |-> <<>>]
        ELSE IF ~last_proposer_bid.willing_to_receive_bribes
        THEN [result |-> "ok", decision |-> "reveal", payments |-> NoPayments,
              payers |-> <<>>]
        ELSE contested_auction(sb, reveal_side, miss_side, last_proposer_bid)

----------------------------------------------------------------------------
(* Market.sample_sides and Market.get_auction_winner *)

SeqsOfLen(S, n) == [1..n -> S]
SeqsUpTo(S, n) == UNION {SeqsOfLen(S, k) : k \in 0..n}

\* list(islice(self.stake_dist.iterator, self.EPOCH_SIZE)) on a distribution
\* that has the attribute: one draw of EPOCH_SIZE clusters from its stream;
\* every cluster has positive weight, so every list of participants can come
sampled_side(parts, n) == SeqsOfLen(Range(parts), n)

Decisions == {"miss", "reveal"}

\* the call self._determine_auction_winner(reveal_side, miss_side, rs) made by
\* get_auction_winner: three positional arguments.  DummyMarket answers
\* rs.choice(("miss", "reveal")); EqualSecondPriceMarket's method has a fourth
\* required parameter, last_slot_proposer.
\* A Market subclass that overrides the hook with the three parameters of
\* Market._determine_auction_winner answers what the override returns
\* (choice): a label, and a dict of payments.
dispatch_determine_auction_winner(cls, choice) ==
    IF cls = "DummyMarket"
    THEN [result |-> "ok", decision |-> choice, payments |-> NoPayments,
          payers |-> <<>>]
    ELSE IF cls = "Market"
    THEN [result |-> "ok", decision |-> choice.decision,
          payments |-> choice.payments, payers |-> choice.payers]
    ELSE [result |-> "TypeError"]

\* Market.get_auction_winner once sample_sides has filled in sides that were
\* both None; a side is None or Some(list)
get_auction_winner(cls, parts, reveal_side, miss_side, choice) ==
    IF reveal_side = None THEN [result |-> "ValueError"]
    ELSE IF miss_side = None THEN [result |-> "ValueError"]
    ELSE IF ~(\A i \in 1..Len(reveal_side.value) : reveal_side.value[i] \in Range(parts))
    THEN [result |-> "AssertionError"]
    ELSE IF ~(\A i \in 1..Len(miss_side.value) : miss_side.value[i] \in Range(parts))
    THEN [result |-> "AssertionError"]
    ELSE dispatch_determine_auction_winner(cls, choice)

\* the sides a caller may pass: None, one cluster, or a participant followed
\* by a cluster that is not in the market
SideArgs ==
    {None} \cup {Some(<<c>>) : c \in AllClusters}
           \cup {Some(<<c, Outsider>>) : c \in Range(get_clusters)}

\* Market.sample_sides() without a randomness source, as the set of its
\* possible outcomes.  It reads self.stake_dist.iterator: the distribution
\* that make_stake_distribution_from_map builds (NewStakeDistribution) has
\* no such attribute, nor has the base class StakeDistribution, so the read
\* raises AttributeError; "StakeDistribution" stands for a subclass that
\* provides it.
sample_sides(sd, parts, n) ==
    IF sd = "NewStakeDistribution"
    THEN {[result |-> "AttributeError", reveal_side |-> None, miss_side |-> None]}
    ELSE {[result |-> "ok", reveal_side |-> Some(r), miss_side |-> Some(m)] :
            r \in sampled_side(parts, n), m \in sampled_side(parts, n)}

\* the decision is drawn only by DummyMarket's decision function, once the
\* sides have passed validation
GetAuctionWinner ==
    /\ Driven
    /\ \E reveal_arg \in SideArgs, miss_arg \in SideArgs :
         \E sample \in IF reveal_arg = None /\ miss_arg = None
                          THEN sample_sides(stake_dist, participants, EPOCH_SIZE)
                          ELSE {[result |-> "ok", reveal_side |-> reveal_arg,
                                 miss_side |-> miss_arg]} :
           \E choice \in IF /\ sample.result = "ok"
                             /\ get_auction_winner(market_class, participants,
                                                   sample.reveal_side, sample.miss_side,
                                                   "miss").result = "ok"
                            THEN Decisions ELSE {"not drawn"} :
             LET r == IF sample.result # "ok" THEN [result |-> sample.result]
                      ELSE get_auction_winner(market_class, participants,
                                              sample.reveal_side, sample.miss_side,
                                              choice)
             IN  op' = [name |-> "get_auction_winner", reveal_arg |-> reveal_arg,
                           miss_arg |-> miss_arg, reveal_side |-> sample.reveal_side,
                           miss_side |-> sample.miss_side, choice |-> choice,
                           result |-> r.result, ret |-> r]
    /\ steps' = steps + 1
    /\ UNCHANGED <<marketVars, runner, b, distVars, instanceVars>>

----------------------------------------------------------------------------
(* Runner *)

DEFAULT_PROPOSER_SLOT_VALUE == 100

RateArgs == {None, Some(1)}
\* no proposer named (a random draw), a participant, or a cluster that is
\* not in the market
ProposerArgs == {NoCluster, get_clusters[1], Outsider}
SlotValueArgs == {None}

\* Runner.__init__; hasattr(type(self), "locked_capital_cost_per_epoch") is
\* False (the class only annotates the name), so a rate of None is let through
\* and the attribute stays unset.  Without a proposer the constructor reads
\* market.stake_dist.new_iterator, which the distribution built by
\* make_stake_distribution_from_map does not have.  The closing assert tests
\* the argument initial_last_slot_proposer, not the attribute.
runner_init(sd, parts, rate_arg, initial_last_slot_proposer, slot_arg, drawn) ==
    LET last_slot_proposer == IF initial_last_slot_proposer = NoCluster THEN drawn
                              ELSE initial_last_slot_proposer
    IN  IF initial_last_slot_proposer = NoCluster /\ sd = "NewStakeDistribution"
        THEN [result |-> "AttributeError"]
        ELSE IF initial_last_slot_proposer \notin Range(parts)
        THEN [result |-> "AssertionError"]
        ELSE [result |-> "ok",
              runner |-> [type |-> "Runner",
                          locked_capital_cost_per_epoch |-> rate_arg,
                          proposer_slot_value |->
                              IF slot_arg = None THEN DEFAULT_PROPOSER_SLOT_VALUE
                              ELSE slot_arg.value,
                          last_slot_proposer |-> last_slot_proposer]]

\* Runner.__init__ writes nothing to the market, so building the runner
\* before the first call on the market loses no run
RunnerInit ==
    /\ Driven
    /\ runner = NoRunner
    /\ steps = 0
    /\ \E rate_arg \in RateArgs, proposer_arg \in ProposerArgs,
          slot_arg \in SlotValueArgs, drawn \in Range(participants) :
         LET r == runner_init(stake_dist, participants, rate_arg, proposer_arg, slot_arg,
                              drawn)
         IN  /\ op' = [name |-> "Runner.__init__", locked_capital_cost_per_epoch |-> rate_arg,
                       initial_last_slot_proposer |-> proposer_arg,
                       proposer_slot_value |-> slot_arg, result |-> r.result]
             /\ runner' = IF r.result = "ok" THEN r.runner ELSE NoRunner
    /\ UNCHANGED <<marketVars, steps, b, distVars, instanceVars>>

\* interest charged on the cost accrued so far instead of the capital locked
pay_interest_on_capital_cost(bs, rate) ==
    IF rate = None THEN [bs |-> bs, result |-> "AttributeError"]
    ELSE [bs |-> [c \in DOMAIN bs |->
                    [bs[c] EXCEPT !.capital_cost = @ + bs[c].capital_cost * rate.value]],
          result |-> "ok"]

\* interest booked as a transaction cost instead of a capital cost
pay_interest_as_transaction_costs(bs, rate) ==
    IF rate = None THEN [bs |-> bs, result |-> "AttributeError"]
    ELSE [bs |-> [c \in DOMAIN bs |->
                    [bs[c] EXCEPT !.transaction_costs =
                                      @ + bs[c].capital_locked * rate.value]],
          result |-> "ok"]

\* Runner.pay_interest_on_capital
pay_interest_on_capital(bs, rate) ==
    IF rate = None THEN [bs |-> bs, result |-> "AttributeError"]
    ELSE [bs |-> [c \in DOMAIN bs |->
                    [bs[c] EXCEPT !.capital_cost = @ + bs[c].capital_locked * rate.value]],
          result |-> "ok"]

\* "for payer, amount in payments.items()": pay bribes, from key index i on
RECURSIVE pay_bribes(_, _, _, _, _)
pay_bribes(bs, payments, keys, bribe_taker, i) ==
    IF i > Len(keys) THEN [bs |-> bs, result |-> "ok"]
    ELSE LET payer == keys[i]
             amount == payments[payer]
         IN  IF payer \notin DOMAIN bs THEN [bs |-> bs, result |-> "KeyError"]
             ELSE LET bs1 == [bs EXCEPT ![payer].payed = @ + amount]
                  IN  IF bribe_taker \notin DOMAIN bs1
                      THEN [bs |-> bs1, result |-> "KeyError"]
                      ELSE pay_bribes([bs1 EXCEPT ![bribe_taker].received = @ + amount],
                                      payments, keys, bribe_taker, i + 1)

\* "for c, slots_gained_or_lost in net_slots.items()", from key index i on
RECURSIVE account_slots(_, _, _, _, _)
account_slots(bs, net_slots, keys, proposer_slot_value, i) ==
    IF i > Len(keys) THEN [bs |-> bs, result |-> "ok"]
    ELSE LET c == keys[i]
             slots_gained_or_lost == net_slots[c]
         IN  IF slots_gained_or_lost > 0
             THEN IF c \notin DOMAIN bs THEN [bs |-> bs, result |-> "KeyError"]
                  ELSE account_slots(
                         [bs EXCEPT ![c].extra_slot_earnings =
                              @ + slots_gained_or_lost * proposer_slot_value],
                         net_slots, keys, proposer_slot_value, i + 1)
             ELSE IF slots_gained_or_lost < 0
             THEN IF c \notin DOMAIN bs THEN [bs |-> bs, result |-> "KeyError"]
                  ELSE account_slots(
                         [bs EXCEPT ![c].extra_slot_costs =
                              @ - slots_gained_or_lost * proposer_slot_value],
                         net_slots, keys, proposer_slot_value, i + 1)
             ELSE account_slots(bs, net_slots, keys, proposer_slot_value, i + 1)

\* net_slots[c] without the slot the proposer forfeits
slots_gained_or_lost_without_forfeit(winner, bribe_taker, reveal_side, miss_side, c) ==
    IF winner = "miss" THEN count(miss_side, c) - count(reveal_side, c) ELSE 0

\* net_slots[c] as process_market leaves it before the accounting loop
slots_gained_or_lost(winner, bribe_taker, reveal_side, miss_side, c) ==
    IF winner = "miss"
    THEN (IF c = bribe_taker THEN 0 - 1 ELSE 0)
         + count(miss_side, c) - count(reveal_side, c)
    ELSE 0

\* the next proposer always taken from the reveal side
next_last_slot_proposer_from_reveal_side(winner, reveal_side, miss_side) ==
    reveal_side[Len(reveal_side)]

\* miss_side[-1] if 'miss' won, reveal_side[-1] if 'reveal' won
next_last_slot_proposer(winner, reveal_side, miss_side) ==
    IF winner = "miss" THEN miss_side[Len(miss_side)]
    ELSE reveal_side[Len(reveal_side)]

\* the bribes credited to the proposer the rotation brings in
bribe_taker_after_rotation(rn, winner, reveal_side, miss_side) ==
    IF winner = "miss" THEN miss_side[Len(miss_side)]
    ELSE reveal_side[Len(reveal_side)]

\* "bribe_taker = self.last_slot_proposer", read before the rotation
bribe_taker_of_epoch(rn, winner, reveal_side, miss_side) == rn.last_slot_proposer

\* every label taken for a decision
any_label_is_decision(winner) == TRUE

\* the labels process_market has a branch for
is_decision(winner) == winner \in {"miss", "reveal"}

\* Runner.process_market after sample_sides; auction is what
\* market.get_auction_winner returned
process_market(bs, rn, reveal_side, miss_side, auction) ==
    IF auction.result # "ok"
    THEN [bs |-> bs, runner |-> rn, result |-> auction.result]
    ELSE
      LET winner == auction.decision
          payments == auction.payments
          bribe_taker == bribe_taker_of_epoch(rn, winner, reveal_side, miss_side)
          paid == pay_bribes(bs, payments, auction.payers, bribe_taker, 1)
          side_keys == key_order(miss_side \o reveal_side)
          net_keys == IF winner = "miss" /\ bribe_taker \notin Range(side_keys)
                      THEN Append(side_keys, bribe_taker) ELSE side_keys
          net_slots == [c \in Range(net_keys) |->
                          slots_gained_or_lost(winner, bribe_taker, reveal_side,
                                               miss_side, c)]
      IN  IF paid.result # "ok"
          THEN [bs |-> paid.bs, runner |-> rn, result |-> paid.result]
          ELSE IF ~is_decision(winner)
          THEN [bs |-> paid.bs, runner |-> rn, result |-> "RuntimeError"]
          ELSE
            LET acc == account_slots(paid.bs, net_slots, net_keys,
                                     rn.proposer_slot_value, 1)
            IN  [bs |-> acc.bs,
                 runner |-> [rn EXCEPT !.last_slot_proposer =
                                 next_last_slot_proposer(winner, reveal_side, miss_side)],
                 result |-> acc.result]

\* market.get_best_bid(c) as Runner.update_behaviours calls it: one positional
\* argument; DummyMarket.get_best_bid requires randomness_source by keyword
get_best_bid(c) == [result |-> "TypeError"]

\* "for c, new_bid in new_bids.items(): market.place_bid(new_bid, c)"
RECURSIVE place_new_bids(_, _, _, _, _)
place_new_bids(st, parts, new_bids, keys, i) ==
    IF i > Len(keys) \/ st.result # "ok" THEN st
    ELSE place_new_bids(place_bid(st.sb, st.bs, parts, new_bids[keys[i]], keys[i]),
                        parts, new_bids, keys, i + 1)

\* Runner.update_behaviours
update_behaviours(sb, bs, parts, clusters) ==
    LET answers == [i \in 1..Len(clusters) |-> get_best_bid(clusters[i])]
        failed == {i \in 1..Len(clusters) : answers[i].result # "ok"}
        keys == key_order(clusters)
        new_bids == [c \in Range(clusters) |->
                        answers[CHOOSE i \in 1..Len(clusters) :
                                  /\ clusters[i] = c
                                  /\ \A k \in 1..Len(clusters) :
                                       clusters[k] = c => k <= i].bid]
    IN  IF failed # {}
        THEN [sb |-> sb, bs |-> bs,
              result |-> answers[CHOOSE i \in failed : \A k \in failed : i <= k].result]
        ELSE place_new_bids([sb |-> sb, bs |-> bs, result |-> "ok"],
                            parts, new_bids, keys, 1)

\* Market.sample_sides(randomness_source=...): with a source the method calls
\* self.stake_dist.sample_cluster(randomness_source=...), but sample_cluster
\* is a property of StakeDistribution whose value is a generator, and a
\* generator cannot be called
sample_sides_from(sd, parts, n, randomness_source) ==
    IF randomness_source # None
    THEN {[result |-> "TypeError", reveal_side |-> None, miss_side |-> None]}
    ELSE sample_sides(sd, parts, n)

\* Market.sample_sides called on the market; a call that returns writes
\* nothing to the market
SampleSides ==
    /\ Driven
    /\ \E randomness_source \in {None, Some(1)} :
         \E sample \in sample_sides_from(stake_dist, participants, EPOCH_SIZE,
                                         randomness_source) :
           op' = [name |-> "sample_sides", randomness_source |-> randomness_source,
                  result |-> sample.result, reveal_side |-> sample.reveal_side,
                  miss_side |-> sample.miss_side]
    /\ steps' = steps + 1
    /\ UNCHANGED <<marketVars, runner, b, distVars, instanceVars>>

\* Runner.update_behaviours(clusters) called on the runner
UpdateBehaviours ==
    /\ Driven
    /\ runner # NoRunner
    /\ \E clusters \in SeqsUpTo(Range(participants), Len(participants)) :
         LET r == update_behaviours(standing_bids, balance_sheets, participants,
                                    clusters)
         IN  /\ standing_bids' = r.sb
             /\ balance_sheets' = r.bs
             /\ op' = [name |-> "update_behaviours", clusters |-> clusters,
                       result |-> r.result]
    /\ steps' = steps + 1
    /\ UNCHANGED <<market_class, stake_dist, participants, EPOCH_SIZE, runner,
                   b, distVars, instanceVars>>

\* the sublists of s (get_participants_who_update keeps the order of participants)
RECURSIVE sublists(_)
sublists(s) ==
    IF s = <<>> THEN {<<>>}
    ELSE LET rest == sublists(Tail(s))
         IN  rest \cup {<<Head(s)>> \o t : t \in rest}

\* Runner.process_epoch; sample is what market.sample_sides() does
process_epoch(cls, parts, sb, bs, rn, sample, choice, updating) ==
    LET interest == pay_interest_on_capital(bs, rn.locked_capital_cost_per_epoch)
    IN  IF interest.result # "ok"
        THEN [sb |-> sb, bs |-> bs, runner |-> rn, result |-> interest.result,
              auction |-> [result |-> "not called"]]
        ELSE IF sample.result # "ok"
        THEN [sb |-> sb, bs |-> interest.bs, runner |-> rn, result |-> sample.result,
              auction |-> [result |-> "not called"]]
        ELSE
          LET reveal_side == sample.reveal_side.value
              miss_side == sample.miss_side.value
              auction == get_auction_winner(cls, parts, Some(reveal_side),
                                            Some(miss_side), choice)
              pm == process_market(interest.bs, rn, reveal_side, miss_side, auction)
          IN  IF pm.result # "ok"
              THEN [sb |-> sb, bs |-> pm.bs, runner |-> pm.runner,
                    result |-> pm.result, auction |-> auction]
              ELSE
                LET ub == update_behaviours(sb, pm.bs, parts, updating)
                IN  [sb |-> ub.sb, bs |-> ub.bs, runner |-> pm.runner,
                     result |-> ub.result, auction |-> auction]

\* what an override of Market._determine_auction_winner may return: one of
\* the two labels or another string, with a dict of payments that is empty,
\* names one participant, names both, or names a cluster outside the market
HookLabels == Decisions \cup {"miss slot"}
HookPayers ==
    {<<>>, <<get_clusters[1]>>, <<get_clusters[2], get_clusters[1]>>, <<Outsider>>}
HookReturns ==
    {[decision |-> d, payers |-> k,
      payments |-> [c \in Range(k) |-> IF c = k[1] THEN MaxAmount ELSE 1]] :
        d \in HookLabels, k \in HookPayers}

\* what process_epoch draws, in the order it draws: the sides once interest is
\* paid, the decision inside DummyMarket's decision function, the revising
\* participants once the market is processed
NoSample == [result |-> "not drawn", reveal_side |-> None, miss_side |-> None]

ProcessEpoch ==
    /\ Driven
    /\ runner # NoRunner
    /\ LET interest == pay_interest_on_capital(balance_sheets,
                                               runner.locked_capital_cost_per_epoch)
       IN
       \E sample \in IF interest.result = "ok"
                        THEN sample_sides(stake_dist, participants, EPOCH_SIZE)
                        ELSE {NoSample} :
         \E choice \in IF sample.result = "ok" /\ market_class = "DummyMarket"
                          THEN Decisions
                          ELSE IF sample.result = "ok" /\ market_class = "Market"
                          THEN HookReturns ELSE {"not drawn"} :
           \E processed \in {process_epoch(market_class, participants, standing_bids,
                                            balance_sheets, runner, sample, choice,
                                            <<>>)} :
             \E updating \in IF processed.result = "ok"
                              THEN sublists(participants) ELSE {<<>>} :
               \E r \in {IF updating = <<>> THEN processed
                          ELSE process_epoch(market_class, participants, standing_bids,
                                             balance_sheets, runner, sample, choice,
                                             updating)} :
                 /\ standing_bids' = r.sb
                 /\ balance_sheets' = r.bs
                 /\ runner' = r.runner
                 /\ op' = [name |-> "process_epoch",
                           reveal_side |-> IF sample.result = "ok"
                                           THEN sample.reveal_side.value ELSE <<>>,
                           miss_side |-> IF sample.result = "ok"
                                         THEN sample.miss_side.value ELSE <<>>,
                           choice |-> choice,
                           updating |-> updating,
                           bribe_taker |-> runner.last_slot_proposer,
                           auction |-> r.auction, result |-> r.result]
    /\ steps' = steps + 1
    /\ UNCHANGED <<market_class, stake_dist, participants, EPOCH_SIZE,
                   b, distVars, instanceVars>>

----------------------------------------------------------------------------

Init ==
    /\ market_class = "none"
    /\ stake_dist = "none"
    /\ participants = <<>>
    /\ balance_sheets = <<>>
    /\ standing_bids = <<>>
    /\ EPOCH_SIZE = DEFAULT_EPOCH_SIZE
    /\ runner = NoRunner
    /\ op = NoOp
    /\ steps = 0
    /\ b = NoBalance
    /\ NoDistributions
    /\ NoInstances

Next ==
    \/ MarketInit
    \/ PlaceBid
    \/ MakePayment
    \/ GetAuctionWinner
    \/ RunnerInit
    \/ ProcessEpoch
    \/ UpdateBehaviours
    \/ SampleSides

Spec == Init /\ [][Next]_vars

----------------------------------------------------------------------------
(* SpecAuction: the decision function of EqualSecondPriceMarket called with *)
(* its four arguments on every bounded bid book.                           *)

EqualSecondPriceBids ==
    {EqualSecondPriceBid(w, r, v) : w \in 0..MaxPay, r \in BOOLEAN, v \in 0..MaxRep}

InitAuction ==
    /\ market_class = "EqualSecondPriceMarket"
    /\ stake_dist = "NewStakeDistribution"
    /\ participants = get_clusters
    /\ balance_sheets = [c \in Range(get_clusters) |-> Balance]
    /\ standing_bids \in [Range(get_clusters) -> EqualSecondPriceBids \cup {None}]
    /\ EPOCH_SIZE = DEFAULT_EPOCH_SIZE
    /\ runner = NoRunner
    /\ op = NoOp
    /\ steps = 0
    /\ b = NoBalance
    /\ NoDistributions
    /\ NoInstances

DetermineAuctionWinner ==
    /\ op.name = "none"
    /\ \E reveal_side \in SeqsUpTo(Range(participants), MaxSide),
          miss_side \in SeqsUpTo(Range(participants), MaxSide),
          last_slot_proposer \in Range(participants) :
         LET r == determine_auction_winner(standing_bids, reveal_side, miss_side,
                                           last_slot_proposer)
         IN  op' = [name |-> "_determine_auction_winner", reveal_side |-> reveal_side,
                    miss_side |-> miss_side, last_slot_proposer |-> last_slot_proposer,
                    result |-> r.result, ret |-> r]
    /\ UNCHANGED <<marketVars, runner, steps, b, distVars, instanceVars>>

NextAuction == DetermineAuctionWinner

SpecAuction == InitAuction /\ [][NextAuction]_vars

----------------------------------------------------------------------------
(* SpecBalance: a Balance whose fields are assigned at will, and the        *)
(* total_balance property read from it.                                     *)

InitBalance ==
    /\ market_class = "none"
    /\ stake_dist = "none"
    /\ participants = <<>>
    /\ balance_sheets = <<>>
    /\ standing_bids = <<>>
    /\ EPOCH_SIZE = DEFAULT_EPOCH_SIZE
    /\ runner = NoRunner
    /\ op = NoOp
    /\ steps = 0
    /\ b = Balance
    /\ NoDistributions
    /\ NoInstances

AssignField ==
    /\ \/ \E f \in MoneyFields, v \in 0..MaxField : b' = [b EXCEPT ![f] = v]
       \/ \E v \in 1..MaxField : b' = [b EXCEPT !.reputation_factor = v]
       \/ \E v \in BOOLEAN : b' = [b EXCEPT !.participated = v]
    /\ op' = [name |-> "assign", result |-> "ok"]
    /\ UNCHANGED <<marketVars, runner, steps, distVars, instanceVars>>

TotalBalance ==
    /\ op' = [name |-> "total_balance", result |-> "ok", ret |-> total_balance(b)]
    /\ UNCHANGED <<marketVars, runner, steps, b, distVars, instanceVars>>

NextBalance ==
    \/ AssignField
    \/ TotalBalance

SpecBalance == InitBalance /\ [][NextBalance]_vars

----------------------------------------------------------------------------
(* SpecSide: maximum_bid_by_side called on every bounded list of payments.  *)

InitSide ==
    /\ market_class = "none"
    /\ stake_dist = "none"
    /\ participants = <<>>
    /\ balance_sheets = <<>>
    /\ standing_bids = <<>>
    /\ EPOCH_SIZE = DEFAULT_EPOCH_SIZE
    /\ runner = NoRunner
    /\ op = NoOp
    /\ steps = 0
    /\ b = NoBalance
    /\ NoDistributions
    /\ NoInstances

MaximumBidBySide ==
    /\ op.name = "none"
    /\ \E maximum_individual_payments \in SeqsUpTo(0..MaxBidValue, MaxBidders) :
         LET r == maximum_bid_by_side(maximum_individual_payments)
         IN  op' = [name |-> "maximum_bid_by_side",
                    maximum_individual_payments |-> maximum_individual_payments,
                    result |-> r.result, ret |-> r]
    /\ UNCHANGED <<marketVars, runner, steps, b, distVars, instanceVars>>

NextSide == MaximumBidBySide

SpecSide == InitSide /\ [][NextSide]_vars

----------------------------------------------------------------------------
(* SpecEpoch: a Runner with an interest rate, over a market of a Market     *)
(* subclass whose _determine_auction_winner has the base class's three      *)
(* parameters and whose stake distribution provides the stream that         *)
(* sample_sides reads, processing epochs.                                   *)

InitEpoch ==
    \E initial_bid_func \in InitialBidFuncArgs,
       initial_balances \in InitialBalancesArgs,
       proposer \in Range(get_clusters) :
      LET m == market_init(Some(SmallEpoch), None, initial_bid_func, initial_balances,
                           IF initial_balances = None THEN "None" ELSE "True")
          r == runner_init("StakeDistribution", get_clusters, Some(1), proposer, None,
                           proposer)
      IN  /\ m.result = "ok"
          /\ market_class = "Market"
          /\ stake_dist = "StakeDistribution"
          /\ participants = m.participants
          /\ balance_sheets = m.balance_sheets
          /\ standing_bids = m.standing_bids
          /\ EPOCH_SIZE = m.EPOCH_SIZE
          /\ runner = r.runner
          /\ op = NoOp
          /\ steps = 0
          /\ b = NoBalance
          /\ NoDistributions
          /\ NoInstances

NextEpoch == steps < MaxEpochs /\ ProcessEpoch

SpecEpoch == InitEpoch /\ [][NextEpoch]_vars

----------------------------------------------------------------------------
(* SpecLedger: the market and Runner of SpecEpoch built with fresh zero      *)
(* balances, taking payments and processing epochs in any order.             *)

InitLedger ==
    \E initial_bid_func \in InitialBidFuncArgs, proposer \in Range(get_clusters) :
      LET m == market_init(Some(SmallEpoch), None, initial_bid_func, None, "None")
          r == runner_init("StakeDistribution", get_clusters, Some(1), proposer, None,
                           proposer)
      IN  /\ m.result = "ok"
          /\ market_class = "Market"
          /\ stake_dist = "StakeDistribution"
          /\ participants = m.participants
          /\ balance_sheets = m.balance_sheets
          /\ standing_bids = m.standing_bids
          /\ EPOCH_SIZE = m.EPOCH_SIZE
          /\ runner = r.runner
          /\ op = NoOp
          /\ steps = 0
          /\ b = NoBalance
          /\ NoDistributions
          /\ NoInstances

NextLedger == MakePayment \/ (steps < MaxEpochs /\ ProcessEpoch)

SpecLedger == InitLedger /\ [][NextLedger]_vars

----------------------------------------------------------------------------
(* Stake distributions (src/participants/clusters.py).  A stake map is the  *)
(* list of its items in the order of the dict; a value is an int or a pair. *)

IntCount(n) == [type |-> "int", count |-> n]
PairCount(n, f) == [type |-> "pair", count |-> n, reputation_factor |-> f]

StakeSizes == 1..MaxStake
CountArgs ==
    {IntCount(n) : n \in 0..MaxCount}
      \cup {PairCount(n, f) : n \in 0..MaxCount, f \in 1..MaxFactor}
ReputationFactorArgs == 1..MaxFactor

\* the dicts over the sizes in sizes with values in counts: keys are distinct
MapsOver(sizes, counts) ==
    {m \in SeqsUpTo([cluster_size : sizes, count : counts], Cardinality(sizes)) :
        \A i, j \in 1..Len(m) : m[i].cluster_size = m[j].cluster_size => i = j}

StakeMaps == MapsOver(StakeSizes, CountArgs)

\* Cluster.__lt__
cluster_lt(self, other) ==
    IF self.number_of_validators = other.number_of_validators
    THEN self.reputation_factor < other.reputation_factor
    ELSE self.number_of_validators < other.number_of_validators

\* list.sort() on clusters: a stable sort by __lt__
RECURSIVE insert_cluster(_, _)
insert_cluster(c, sorted) ==
    IF sorted = <<>> THEN <<c>>
    ELSE IF cluster_lt(c, Head(sorted)) THEN <<c>> \o sorted
    ELSE <<Head(sorted)>> \o insert_cluster(c, Tail(sorted))

\* the clusters kept in the order of the dict
clusters_in_map_order(clusters, n) == clusters

RECURSIVE sort_clusters(_, _)
sort_clusters(clusters, n) ==
    IF n = 0 THEN <<>>
    ELSE insert_cluster(clusters[n], sort_clusters(clusters, n - 1))

\* the list comprehension: n objects of the fresh class ClusterWithTotalStake
\* of distribution cls
new_clusters(cluster_size, reputation_factor, n, cls) ==
    [i \in 1..n |-> [number_of_validators |-> cluster_size,
                     reputation_factor |-> reputation_factor,
                     cls |-> cls]]

\* the loop over stake_map.items()
RECURSIVE clusters_of_items(_, _, _)
clusters_of_items(items, reputation_factor, cls) ==
    IF items = <<>> THEN <<>>
    ELSE LET entry == Head(items).count
         IN  (IF entry.type = "int"
              THEN new_clusters(Head(items).cluster_size, reputation_factor,
                                entry.count, cls)
              ELSE new_clusters(Head(items).cluster_size, entry.reputation_factor,
                                entry.count, cls))
             \o clusters_of_items(Tail(items), reputation_factor, cls)

\* list(accumulate(sizes))
RECURSIVE accumulate(_)
accumulate(sizes) ==
    IF sizes = <<>> THEN <<>>
    ELSE LET front == accumulate(SubSeq(sizes, 1, Len(sizes) - 1))
         IN  Append(front, (IF front = <<>> THEN 0 ELSE front[Len(front)])
                             + sizes[Len(sizes)])

RECURSIVE sum(_)
sum(sizes) == IF sizes = <<>> THEN 0 ELSE Head(sizes) + sum(Tail(sizes))

\* make_stake_distribution_from_map: the instance of the fresh class
\* NewStakeDistribution, numbered cls.  total_number_of_validators is the
\* class variable of the fresh class ClusterWithTotalStake of this call;
\* randomness_source is the Random object of the default sampler.
make_stake_distribution_from_map(stake_map, randomness_source, reputation_factor, cls) ==
    LET unsorted == clusters_of_items(stake_map, reputation_factor, cls)
        clusters == sort_clusters(unsorted, Len(unsorted))
        cluster_sizes == [i \in 1..Len(clusters) |-> clusters[i].number_of_validators]
    IN  [stake_map |-> stake_map,
         clusters |-> clusters,
         cluster_sizes |-> cluster_sizes,
         cluster_sizes_cumulated |-> accumulate(cluster_sizes),
         total_number_of_validators |-> sum(cluster_sizes),
         randomness_source |-> randomness_source]

\* stake_fraction read off the class variable of the newest cluster class
stake_fraction_of_newest_class(ds, c) ==
    IF ds[Len(ds)].total_number_of_validators = 0
    THEN [result |-> "ZeroDivisionError"]
    ELSE [result |-> "ok", numerator |-> c.number_of_validators,
          denominator |-> ds[Len(ds)].total_number_of_validators]

\* ClusterWithTotalStake.stake_fraction: number_of_validators divided by the
\* class variable of the cluster's own class, as a fraction
stake_fraction(ds, c) ==
    IF ds[c.cls].total_number_of_validators = 0
    THEN [result |-> "ZeroDivisionError"]
    ELSE [result |-> "ok", numerator |-> c.number_of_validators,
          denominator |-> ds[c.cls].total_number_of_validators]

\* one call of make_stake_distribution_from_map with no randomness source
BuildDistribution(stake_map, reputation_factor) ==
    /\ dists' = Append(dists, make_stake_distribution_from_map(
                                 stake_map, None, reputation_factor, Len(dists) + 1))
    /\ op' = [name |-> "make_stake_distribution_from_map", stake_map |-> stake_map,
              reputation_factor |-> reputation_factor, result |-> "ok"]
    /\ UNCHANGED <<marketVars, runner, steps, b, randoms, samplers, instanceVars>>

(* SpecDist: one distribution built from any stake map. *)

InitDist == Init

MakeStakeDistribution ==
    /\ dists = <<>>
    /\ \E stake_map \in StakeMaps, reputation_factor \in ReputationFactorArgs :
         BuildDistribution(stake_map, reputation_factor)

NextDist == MakeStakeDistribution

SpecDist == InitDist /\ [][NextDist]_vars

(* SpecFraction: several distributions built one after another, all alive.  *)

FractionCountArgs == {IntCount(1), PairCount(2, 2)}
FractionStakeMaps == MapsOver(StakeSizes, FractionCountArgs)

InitFraction == Init

MakeNextStakeDistribution ==
    /\ Len(dists) < MaxDists
    /\ \E stake_map \in FractionStakeMaps : BuildDistribution(stake_map, 1)

NextFraction == MakeNextStakeDistribution

SpecFraction == InitFraction /\ [][NextFraction]_vars

(* SpecInstances: two Market instances built one after the other from the  *)
(* same stake distribution and the same initial_balances argument, then    *)
(* used in any order.  A Balance is an object: heap holds the objects and   *)
(* a market's balance_sheets dict holds references to them.                 *)

\* the market's dict as place_bid and make_payment read it
sheets_of(hp, market) ==
    [c \in DOMAIN market.balance_sheets |-> hp[market.balance_sheets[c]]]

\* the objects of the market's dict after a call has written them
written_through(hp, market, bs) ==
    [i \in DOMAIN hp |->
       IF \E c \in DOMAIN market.balance_sheets : market.balance_sheets[c] = i
       THEN bs[CHOOSE c \in DOMAIN market.balance_sheets :
                 market.balance_sheets[c] = i]
       ELSE hp[i]]

\* the references a market's balance_sheets holds after Market.__init__:
\* {c: Balance() for c in participants} makes new objects (from index first
\* on), initial_balances.copy() copies the dict and keeps its objects
balance_sheet_references(initial_balances, parts, first) ==
    IF initial_balances = None
    THEN [c \in Range(parts) |->
            first - 1 + CHOOSE i \in 1..Len(parts) : parts[i] = c]
    ELSE [c \in DOMAIN initial_balances |->
            CHOOSE i \in 1..Len(parts) : parts[i] = c]

InstanceBalancesArgs == {None} \cup Maps(Range(get_clusters), {UsedBalance})

InitInstances ==
    \E initial_balances \in InstanceBalancesArgs :
      LET m == market_init(Some(SmallEpoch), None, None, initial_balances, "True")
          instance(first) ==
              [participants |-> m.participants,
               balance_sheets |-> balance_sheet_references(initial_balances,
                                                           m.participants, first),
               standing_bids |-> m.standing_bids,
               EPOCH_SIZE |-> m.EPOCH_SIZE]
      IN  /\ market_class = "none"
          /\ stake_dist = "none"
          /\ participants = <<>>
          /\ balance_sheets = <<>>
          /\ standing_bids = <<>>
          /\ EPOCH_SIZE = DEFAULT_EPOCH_SIZE
          /\ runner = NoRunner
          /\ op = NoOp
          /\ steps = 0
          /\ b = NoBalance
          /\ NoDistributions
          /\ heap = IF initial_balances = None
                    THEN [i \in 1..(2 * Len(m.participants)) |-> Balance]
                    ELSE [i \in 1..Len(m.participants) |->
                            initial_balances[m.participants[i]]]
          /\ markets = <<instance(1), instance(Len(m.participants) + 1)>>

PlaceBidOn ==
    /\ op.result = "ok"
    /\ steps < MaxSteps
    /\ \E k \in 1..Len(markets), cluster \in AllClusters, bid \in BidsOrNone :
         LET market == markets[k]
             r == place_bid(market.standing_bids, sheets_of(heap, market),
                            market.participants, bid, cluster)
         IN  /\ markets' = [markets EXCEPT ![k].standing_bids = r.sb]
             /\ heap' = written_through(heap, market, r.bs)
             /\ op' = [name |-> "place_bid", market |-> k, bid |-> bid,
                       cluster |-> cluster, result |-> r.result]
    /\ steps' = steps + 1
    /\ UNCHANGED <<marketVars, runner, b, distVars>>

MakePaymentOn ==
    /\ op.result = "ok"
    /\ steps < MaxSteps
    /\ \E k \in 1..Len(markets), sender \in AllClusters, receiver \in AllClusters,
          amount \in Amounts :
         LET market == markets[k]
             r == make_payment(sheets_of(heap, market), sender, receiver, amount)
         IN  /\ heap' = written_through(heap, market, r.bs)
             /\ op' = [name |-> "make_payment", market |-> k, sender |-> sender,
                       receiver |-> receiver, amount |-> amount, result |-> r.result]
    /\ steps' = steps + 1
    /\ UNCHANGED <<marketVars, runner, b, distVars, markets>>

NextInstances == PlaceBidOn \/ MakePaymentOn

SpecInstances == InitInstances /\ [][NextInstances]_vars

(* remove_duplicates (src/utils/remove_duplicates.py).  An object is its   *)
(* id, so "x is y" is equality of ids; SpecRemove calls the function on any *)
(* two lists and runs its loop one round at a time.                         *)

\* sorted(l, key=id)
RECURSIVE sorted_by_id(_)
sorted_by_id(l) ==
    IF l = <<>> THEN <<>>
    ELSE LET rest == sorted_by_id(Tail(l))
             smaller == {i \in 1..Len(rest) : rest[i] <= Head(l)}
         IN  SubSeq(rest, 1, Cardinality(smaller)) \o <<Head(l)>>
               \o SubSeq(rest, Cardinality(smaller) + 1, Len(rest))

\* l[-1] and the list after l.pop()
last(l) == l[Len(l)]
popped(l) == SubSeq(l, 1, Len(l) - 1)

\* the statements of remove_duplicates before its loop
remove_duplicates_enter(l1, l2) ==
    LET l1_copy == sorted_by_id(l1)
        l2_copy == sorted_by_id(l2)
        locals == [l1 |-> l1, l2 |-> l2, l1_copy |-> l1_copy, l2_copy |-> l2_copy,
                   l1_output |-> <<>>, l2_output |-> <<>>]
    IN  IF Len(l1) = 0
        THEN [pc |-> "done", locals |-> locals, ret |-> <<<<>>, l2_copy>>]
        ELSE IF Len(l2) = 0
        THEN [pc |-> "done", locals |-> locals, ret |-> <<l1_copy, <<>>>>]
        ELSE [pc |-> "loop", locals |-> locals, ret |-> <<>>]

\* what follows the loop
remove_duplicates_return(locals) ==
    [pc |-> "done", locals |-> locals,
     ret |-> <<locals.l1_output \o locals.l1_copy,
               locals.l2_output \o locals.l2_copy>>]

\* a round that drops a duplicate from l1_copy only
remove_duplicates_round_popping_one(locals) ==
    IF last(locals.l1_copy) = last(locals.l2_copy)
    THEN LET after == [locals EXCEPT !.l1_copy = popped(@)]
         IN  IF Len(after.l1_copy) = 0 \/ Len(after.l2_copy) = 0
             THEN remove_duplicates_return(after)
             ELSE [pc |-> "loop", locals |-> after, ret |-> <<>>]
    ELSE IF last(locals.l2_copy) > last(locals.l1_copy)
    THEN LET after == [locals EXCEPT !.l2_output = Append(@, last(locals.l2_copy)),
                                     !.l2_copy = popped(@)]
         IN  IF Len(after.l2_copy) = 0
             THEN remove_duplicates_return(after)
             ELSE [pc |-> "loop", locals |-> after, ret |-> <<>>]
    ELSE LET after == [locals EXCEPT !.l1_output = Append(@, last(locals.l1_copy)),
                                     !.l1_copy = popped(@)]
         IN  IF Len(after.l1_copy) = 0
             THEN remove_duplicates_return(after)
             ELSE [pc |-> "loop", locals |-> after, ret |-> <<>>]

\* one round of "while True"
remove_duplicates_round(locals) ==
    IF last(locals.l1_copy) = last(locals.l2_copy)
    THEN LET after == [locals EXCEPT !.l1_copy = popped(@), !.l2_copy = popped(@)]
         IN  IF Len(after.l1_copy) = 0 \/ Len(after.l2_copy) = 0
             THEN remove_duplicates_return(after)
             ELSE [pc |-> "loop", locals |-> after, ret |-> <<>>]
    ELSE IF last(locals.l2_copy) > last(locals.l1_copy)
    THEN LET after == [locals EXCEPT !.l2_output = Append(@, last(locals.l2_copy)),
                                     !.l2_copy = popped(@)]
         IN  IF Len(after.l2_copy) = 0
             THEN remove_duplicates_return(after)
             ELSE [pc |-> "loop", locals |-> after, ret |-> <<>>]
    ELSE LET after == [locals EXCEPT !.l1_output = Append(@, last(locals.l1_copy)),
                                     !.l1_copy = popped(@)]
         IN  IF Len(after.l1_copy) = 0
             THEN remove_duplicates_return(after)
             ELSE [pc |-> "loop", locals |-> after, ret |-> <<>>]

ObjectLists == SeqsUpTo(1..MaxObjects, MaxList)

InitRemove == Init

RemoveDuplicates ==
    /\ op.name = "none"
    /\ \E l1 \in ObjectLists, l2 \in ObjectLists :
         LET r == remove_duplicates_enter(l1, l2)
         IN  op' = [name |-> "remove_duplicates", args |-> <<l1, l2>>, pc |-> r.pc,
                    locals |-> r.locals, ret |-> r.ret, result |-> "ok"]
    /\ UNCHANGED <<marketVars, runner, steps, b, distVars, instanceVars>>

RemoveDuplicatesRound ==
    /\ op.name = "remove_duplicates"
    /\ op.pc = "loop"
    /\ LET r == remove_duplicates_round(op.locals)
       IN  op' = [op EXCEPT !.pc = r.pc, !.locals = r.locals, !.ret = r.ret]
    /\ UNCHANGED <<marketVars, runner, steps, b, distVars, instanceVars>>

NextRemove == RemoveDuplicates \/ RemoveDuplicatesRound

SpecRemove == InitRemove /\ [][NextRemove]_vars /\ WF_vars(NextRemove)

(* Samplers.  A random.Random is a deterministic generator: a state, set   *)
(* from the seed, that every call of random() advances.  Its states here   *)
(* are 0..7 and random() returns state / 8.                                *)

\* Random(seed)
Random(seed) == [seed |-> seed, state |-> seed]

\* the state after one call of r.random()
random(r) == [r EXCEPT !.state = (5 * r.state + 3) % 8]

\* r.choices(population, cum_weights=cum_weights)[0] on the state r has after
\* its call of random(): population[bisect(cum_weights, random() * total)]
choices(r, population, cum_weights) ==
    LET total == cum_weights[Len(cum_weights)]
        hi == CHOOSE i \in 1..Len(population) :
                /\ cum_weights[i] * 8 > r.state * total
                /\ \A j \in 1..(i - 1) : cum_weights[j] * 8 <= r.state * total
    IN  population[hi]

\* a sampler that draws from the distribution's default source whatever
\* source it is given
new_cluster_sampler_on_default_source(d, sd, randomness_source) ==
    [dist |-> d, randomness_source |-> randomness_source,
     r |-> sd.randomness_source, drawn |-> <<>>]

\* NewStakeDistribution.new_cluster_sampler(randomness_source): the generator
\* object.  r is the index in randoms of the source it draws from, None
\* until a sampler created without a source makes its own Random() on its
\* first draw; drawn lists what it has yielded.
new_cluster_sampler(d, sd, randomness_source) ==
    [dist |-> d, randomness_source |-> randomness_source,
     r |-> randomness_source, drawn |-> <<>>]

\* the sampler reads the sorted clusters only, so one order of keys will do
SamplerStakeMaps ==
    {m \in FractionStakeMaps :
        Len(m) = MaxStake /\ \A i \in 1..Len(m) : m[i].cluster_size = i}

(* SpecSampler: one distribution with its default sampler and two more     *)
(* samplers made by new_cluster_sampler, each over a given Random or over   *)
(* none, drawn from in any order.  The caller holds three Random objects,   *)
(* randoms[1..3]; the first is the distribution's default source.  A Random *)
(* that a sampler makes for itself is local to its generator.               *)

RandomnessSourceArgs == {None} \cup {Some(i) : i \in 1..3}

InitSampler ==
    \E stake_map \in SamplerStakeMaps, seeds \in [1..3 -> 0..MaxSeed],
       sources \in [2..3 -> RandomnessSourceArgs] :
      /\ market_class = "none"
      /\ stake_dist = "none"
      /\ participants = <<>>
      /\ balance_sheets = <<>>
      /\ standing_bids = <<>>
      /\ EPOCH_SIZE = DEFAULT_EPOCH_SIZE
      /\ runner = NoRunner
      /\ op = NoOp
      /\ steps = 0
      /\ b = NoBalance
      /\ NoInstances
      /\ randoms = [i \in 1..3 |-> Random(seeds[i])]
      /\ dists = <<make_stake_distribution_from_map(stake_map, Some(1), 1, 1)>>
      /\ samplers = <<new_cluster_sampler(1, dists[1], Some(1)),
                      new_cluster_sampler(1, dists[1], sources[2]),
                      new_cluster_sampler(1, dists[1], sources[3])>>

\* next(sampler): one round of the generator's loop
NextCluster ==
    /\ steps < MaxDraws
    /\ \E k \in 1..Len(samplers), fresh_seed \in 0..MaxSeed :
         LET sampler == samplers[k]
             started == IF sampler.r = None
                        THEN Append(randoms, Random(fresh_seed)) ELSE randoms
             i == IF sampler.r = None THEN Len(started) ELSE sampler.r.value
             r == random(started[i])
             sd == dists[sampler.dist]
             cluster == choices(r, sd.clusters, sd.cluster_sizes_cumulated)
         IN  /\ sampler.r # None => fresh_seed = 0
             /\ randoms' = [started EXCEPT ![i] = r]
             /\ samplers' = [samplers EXCEPT ![k] =
                                [sampler EXCEPT !.r = Some(i),
                                                !.drawn = Append(@, cluster)]]
             /\ op' = [name |-> "next", sampler |-> k, result |-> "ok"]
    /\ steps' = steps + 1
    /\ UNCHANGED <<marketVars, runner, b, dists, instanceVars>>

NextSampler == NextCluster

SpecSampler == InitSampler /\ [][NextSampler]_vars

----------------------------------------------------------------------------
(* Properties *)

Constructed == market_class # "none"

HasSheet(c) == c \in DOMAIN balance_sheets

\* C1: a make_payment called with amount >= 0 between two clusters that both
\* have participated succeeds, adds amount to the sender's payed and to the
\* receiver's received (both on the one sheet when sender = receiver), and
\* changes no other sheet field, no standing bid and no participated flag.
C1_MakePaymentBooksAmount ==
    [][ (/\ op'.name = "make_payment"
         /\ op'.amount >= 0
         /\ HasSheet(op'.sender) /\ HasSheet(op'.receiver)
         /\ balance_sheets[op'.sender].participated
         /\ balance_sheets[op'.receiver].participated)
        => /\ op'.result = "ok"
           /\ DOMAIN balance_sheets' = DOMAIN balance_sheets
           /\ \A c \in DOMAIN balance_sheets :
                /\ balance_sheets'[c].payed =
                     balance_sheets[c].payed + (IF c = op'.sender THEN op'.amount ELSE 0)
                /\ balance_sheets'[c].received =
                     balance_sheets[c].received + (IF c = op'.receiver THEN op'.amount ELSE 0)
                /\ \A f \in (DOMAIN Balance) \ {"payed", "received"} :
                     balance_sheets'[c][f] = balance_sheets[c][f]
           /\ standing_bids' = standing_bids ]_vars

C1_Witness ==
    /\ op.name = "make_payment"
    /\ op.result = "ok"
    /\ op.amount > 0
    /\ op.sender # op.receiver
    /\ balance_sheets[op.sender].payed >= op.amount
    /\ balance_sheets[op.receiver].received >= op.amount

C3_PlaceBidFrame ==
    [][ op'.name = "place_bid"
        => /\ DOMAIN standing_bids' = DOMAIN standing_bids
           /\ DOMAIN balance_sheets' = DOMAIN balance_sheets
           /\ op'.result = "ok" => standing_bids'[op'.cluster] = op'.bid
           /\ \A c \in (DOMAIN standing_bids) \ {op'.cluster} :
                standing_bids'[c] = standing_bids[c]
           /\ \A c \in (DOMAIN balance_sheets) \ {op'.cluster} :
                balance_sheets'[c] = balance_sheets[c]
           /\ \A c \in DOMAIN standing_bids' : standing_bids'[c] \in BidsOrNone ]_vars

C3_Witness ==
    /\ op.name = "place_bid"
    /\ op.result = "ok"
    /\ op.old_bid # None
    /\ op.bid # None
    /\ op.bid # op.old_bid
    /\ standing_bids[op.cluster] = op.bid
    /\ \E c \in (DOMAIN standing_bids) \ {op.cluster} : standing_bids[c] # None

CostFields(bal) == <<bal.transaction_costs, bal.capital_cost, bal.reputation>>

PaidInitialBidders ==
    IF op.pay_for_initial_bids = "False" THEN {}
    ELSE IF op.initial_bid_func # None THEN Range(get_clusters)
    ELSE IF op.initial_bids # None
    THEN {c \in DOMAIN op.initial_bids : op.initial_bids[c] # None}
    ELSE {}

\* C5: participated is False on a fresh sheet until the cluster's first
\* place_bid with a bid that is not None, is True after that call, and no
\* later operation (place_bid with None, make_payment, process_epoch) resets it.
C5_ParticipatedSetOnceNeverReset ==
    [][ /\ (op'.name = "Market.__init__" /\ op'.result = "ok"
            /\ op'.initial_balances = None)
           => \A c \in DOMAIN balance_sheets' :
                balance_sheets'[c].participated <=> c \in PaidInitialBidders'
        /\ Constructed
           => /\ \A c \in DOMAIN balance_sheets :
                   /\ balance_sheets[c].participated
                        => (c \in DOMAIN balance_sheets' /\ balance_sheets'[c].participated)
                   /\ (~balance_sheets[c].participated /\ balance_sheets'[c].participated)
                        => (/\ op'.name = "place_bid"
                            /\ op'.cluster = c
                            /\ op'.bid # None)
              /\ (op'.name = "place_bid" /\ op'.result = "ok" /\ op'.bid # None)
                   => balance_sheets'[op'.cluster].participated ]_vars

C5_Witness ==
    /\ op.name = "process_epoch"
    /\ runner.locked_capital_cost_per_epoch # None
    /\ \E c \in DOMAIN balance_sheets :
         /\ balance_sheets[c].participated
         /\ standing_bids[c] = None
         /\ balance_sheets[c].transaction_costs = 2

\* C6: once a Market is constructed (with any initial_bids, initial_bid_func,
\* initial_balances, pay_for_initial_bids) the key sets of balance_sheets and
\* standing_bids both equal the set of participants, in every state.
C6_KeySetsEqualParticipants ==
    Constructed
    => /\ DOMAIN balance_sheets = Range(participants)
       /\ DOMAIN standing_bids = Range(participants)

\* C7: a Market constructed without initial bids and without initial balances
\* has participants = get_clusters(), no standing bid for any participant, and
\* for each participant a sheet with participated = False and every monetary
\* field 0.
C7_FreshMarket ==
    (/\ op.name = "Market.__init__"
     /\ op.result = "ok"
     /\ op.initial_bids = None
     /\ op.initial_bid_func = None
     /\ op.initial_balances = None)
    => /\ participants = get_clusters
       /\ DOMAIN standing_bids = Range(participants)
       /\ DOMAIN balance_sheets = Range(participants)
       /\ \A c \in Range(participants) :
            /\ standing_bids[c] = None
            /\ balance_sheets[c].participated = FALSE
            /\ \A f \in MoneyFields : balance_sheets[c][f] = 0

C7_Witness ==
    /\ op.name = "Market.__init__"
    /\ op.result = "ok"
    /\ op.initial_bids = None
    /\ op.initial_bid_func = None
    /\ op.initial_balances = None
    /\ op.pay_for_initial_bids = "True"
    /\ Len(participants) = 2

\* C8: total_balance is received + extra_slot_earnings less payed, capital_cost,
\* transaction_costs, extra_slot_costs and reputation * reputation_factor, for
\* every assignment of the fields; capital_locked and participated play no part.
C8_TotalBalanceFormula ==
    op.name = "total_balance"
    => op.ret + b.payed + b.capital_cost + b.transaction_costs + b.extra_slot_costs
              + b.reputation * b.reputation_factor
       = b.received + b.extra_slot_earnings

C8_Witness ==
    /\ op.name = "total_balance"
    /\ b.capital_locked > 0
    /\ b.participated
    /\ b.reputation > 0
    /\ b.reputation_factor > 1
    /\ b.payed > b.received
    /\ op.ret < 0

SideHasOutsider(side) == \E i \in 1..Len(side) : side[i] \notin Range(participants)

\* C9: get_auction_winner called with two sides fails with an assertion fault
\* when a side names a cluster that is no participant, and otherwise returns
\* the (decision, payments) of the market's own decision function.
C9_AuctionWinnerDelegates ==
    (/\ op.name = "get_auction_winner"
     /\ op.reveal_side # None
     /\ op.miss_side # None)
    => IF SideHasOutsider(op.reveal_side.value) \/ SideHasOutsider(op.miss_side.value)
       THEN op.result = "AssertionError"
       ELSE /\ op.result = "ok"
            /\ op.ret.decision \in Decisions
            /\ market_class = "DummyMarket"
                 => (op.ret.decision = op.choice /\ op.ret.payments = NoPayments)

\* C10: when the last-slot proposer holds no bid, or a bid that declines
\* bribes, the equal-second-price mechanism answers 'reveal' with no payments,
\* whatever the sides and the other bids are.
C10_UnswayableProposerReveals ==
    (/\ op.name = "_determine_auction_winner"
     /\ \/ standing_bids[op.last_slot_proposer] = None
        \/ ~standing_bids[op.last_slot_proposer].willing_to_receive_bribes)
    => /\ op.result = "ok"
       /\ op.ret.decision = "reveal"
       /\ DOMAIN op.ret.payments = {}

C10_Witness ==
    /\ op.name = "_determine_auction_winner"
    /\ standing_bids[op.last_slot_proposer] # None
    /\ ~standing_bids[op.last_slot_proposer].willing_to_receive_bribes
    /\ op.reveal_side = <<>>
    /\ Len(op.miss_side) = MaxSide
    /\ \A i \in 1..Len(op.miss_side) :
         /\ standing_bids[op.miss_side[i]] # None
         /\ standing_bids[op.miss_side[i]].willing_to_pay = MaxPay
    /\ op.ret.decision = "reveal"

\* the k-th largest value of the list v, counted with multiplicity
KthLargest(v, k) ==
    CHOOSE x \in Range(v) :
        /\ Cardinality({i \in 1..Len(v) : v[i] >= x}) >= k
        /\ \A y \in Range(v) :
              Cardinality({i \in 1..Len(v) : v[i] >= y}) >= k => y <= x

\* the largest of (k-th largest value of v) * k over k in 1..Len(v)
CollectiveBid(v) ==
    CHOOSE m \in {KthLargest(v, k) * k : k \in 1..Len(v)} :
        \A k \in 1..Len(v) : KthLargest(v, k) * k <= m

Reorderings(v) ==
    {[i \in 1..Len(v) |-> v[f[i]]] :
        f \in {g \in [1..Len(v) -> 1..Len(v)] :
                 \A i, j \in 1..Len(v) : g[i] = g[j] => i = j}}

\* C11: for a non-empty list v of payments, maximum_bid_by_side(v) is the
\* largest of (k-th largest value of v) * k; every reordering of v gives the
\* same answer; [1,2,3,4] gives 6, [1,1,1,1] gives 4 and [1,2,2] gives 4.
C11_CollectiveBidIsBestUniformPrice ==
    (op.name = "maximum_bid_by_side" /\ op.maximum_individual_payments # <<>>)
    => LET v == op.maximum_individual_payments
       IN  /\ op.result = "ok"
           /\ op.ret.value = CollectiveBid(v)
           /\ \A w \in Reorderings(v) : maximum_bid_by_side(w) = op.ret
           /\ v = <<1, 2, 3, 4>> => op.ret.value = 6
           /\ v = <<1, 1, 1, 1>> => op.ret.value = 4
           /\ v = <<1, 2, 2>> => op.ret.value = 4

C11_Witness ==
    /\ op.name = "maximum_bid_by_side"
    /\ op.maximum_individual_payments = <<1, 2, 3, 4>>
    /\ op.ret.value = 6

\* the mechanism was called with a proposer whose bid accepts bribes
Contested ==
    /\ op.name = "_determine_auction_winner"
    /\ standing_bids[op.last_slot_proposer] # None
    /\ standing_bids[op.last_slot_proposer].willing_to_receive_bribes

\* C12: with a proposer that accepts bribes (and a bid on the miss side), the
\* mechanism decides 'reveal' exactly when the reveal side's collective bid
\* plus the proposer's minimum_gain is at least the miss side's collective
\* bid; an exact tie is a 'reveal'.
C12_RevealIffNotOutbid ==
    (Contested /\ miss_side_values(standing_bids, op.miss_side) # <<>>)
    => LET last_proposer_bid == standing_bids[op.last_slot_proposer]
           reveal_collective_bid ==
               CollectiveBid(reveal_side_values(standing_bids, op.reveal_side,
                                                last_proposer_bid))
           miss_collective_bid ==
               CollectiveBid(miss_side_values(standing_bids, op.miss_side))
       IN  /\ op.result = "ok"
           /\ op.ret.decision = "reveal"
                <=> reveal_collective_bid + minimum_gain(last_proposer_bid)
                      >= miss_collective_bid

C14_MechanismAlwaysDecides ==
    op.name = "_determine_auction_winner"
    => /\ op.result = "ok"
       /\ op.ret.decision \in Decisions

\* a process_epoch step whose auction returned and whose market processing
\* ran to its end (the step may still fail in the bid revision after it)
MarketProcessed ==
    /\ op'.name = "process_epoch"
    /\ op'.auction.result = "ok"
    /\ op'.result \in {"ok", "TypeError"}

\* d(c) of the epoch just processed, from the sides and decision it drew and
\* the proposer it started with
SlotDelta(c) ==
    IF op'.auction.decision = "miss"
    THEN count(op'.miss_side, c) - count(op'.reveal_side, c)
         - (IF c = runner.last_slot_proposer THEN 1 ELSE 0)
    ELSE 0

RECURSIVE SumOfPayments(_, _)
SumOfPayments(payments, payers) ==
    IF payers = <<>> THEN 0
    ELSE payments[Head(payers)] + SumOfPayments(payments, Tail(payers))

\* C17: in a process_epoch every entry (payer, amount) of the auction's
\* payment map adds amount to the payer's payed and to the received of the
\* cluster that was last_slot_proposer when the epoch began, not of the
\* cluster the rotation makes proposer.
C17_BribesGoToProposerOfEpoch ==
    [][(/\ op'.name = "process_epoch"
        /\ op'.auction.result = "ok"
        /\ op'.result # "KeyError")
       => \A c \in DOMAIN balance_sheets :
            /\ balance_sheets'[c].payed =
                 balance_sheets[c].payed
                   + (IF c \in DOMAIN op'.auction.payments
                      THEN op'.auction.payments[c] ELSE 0)
            /\ balance_sheets'[c].received =
                 balance_sheets[c].received
                   + (IF c = runner.last_slot_proposer
                      THEN SumOfPayments(op'.auction.payments, op'.auction.payers)
                      ELSE 0)]_vars

C17_Witness ==
    /\ op.name = "process_epoch"
    /\ op.result = "ok"
    /\ op.auction.payers = <<get_clusters[2], get_clusters[1]>>
    /\ op.bribe_taker = get_clusters[1]
    /\ runner.last_slot_proposer = get_clusters[2]
    /\ balance_sheets[get_clusters[1]].received = MaxAmount + 1
    /\ balance_sheets[get_clusters[2]].received = 0

\* C18: a process_epoch adds capital_locked * interest rate to the
\* capital_cost of every balance sheet, with the capital_locked held when the
\* epoch began, and the accrual changes no other field (the epoch's bribes
\* and slot accounting write payed, received and the two slot fields).
C18_InterestAccrual ==
    [][(op'.name = "process_epoch" /\ runner.locked_capital_cost_per_epoch # None)
       => \A c \in DOMAIN balance_sheets :
            balance_sheets'[c] =
              [balance_sheets[c] EXCEPT
                 !.capital_cost =
                     @ + balance_sheets[c].capital_locked
                           * runner.locked_capital_cost_per_epoch.value,
                 !.payed = balance_sheets'[c].payed,
                 !.received = balance_sheets'[c].received,
                 !.extra_slot_earnings = balance_sheets'[c].extra_slot_earnings,
                 !.extra_slot_costs = balance_sheets'[c].extra_slot_costs]]_vars

C18_Witness ==
    /\ op.name = "process_epoch"
    /\ runner.locked_capital_cost_per_epoch # None
    /\ \E c \in DOMAIN balance_sheets :
         /\ balance_sheets[c].capital_locked > 0
         /\ balance_sheets[c].capital_cost
              = UsedBalance.capital_cost + balance_sheets[c].capital_locked

\* C19: in a bid revision (update_behaviours, the last step of a
\* process_epoch) every selected cluster's new bid is computed by
\* get_best_bid on the bid book as it stood before any revision, and then all
\* new bids are placed: the revision ends normally with the computed bid
\* standing for every selected cluster and the bids of the others untouched.
C19_RevisionComputeThenApply ==
    [][(op'.name = "update_behaviours" /\ op'.clusters # <<>>)
       => /\ op'.result = "ok"
          /\ \A c \in DOMAIN standing_bids :
               standing_bids'[c] = IF c \in Range(op'.clusters) THEN Bid
                                   ELSE standing_bids[c]]_vars

\* C20: when the auction returns a decision that is neither 'reveal' nor
\* 'miss', process_epoch ends in a fault, last_slot_proposer stays as it was,
\* no slot earnings or costs are booked and no bid is revised.
C20_UnknownDecisionIsFatal ==
    [][(/\ op'.name = "process_epoch"
        /\ op'.auction.result = "ok"
        /\ op'.auction.decision \notin Decisions)
       => /\ op'.result \in {"RuntimeError", "KeyError"}
          /\ op'.auction.payers = <<>> => op'.result = "RuntimeError"
          /\ runner' = runner
          /\ standing_bids' = standing_bids
          /\ \A c \in DOMAIN balance_sheets :
               /\ balance_sheets'[c].extra_slot_earnings
                    = balance_sheets[c].extra_slot_earnings
               /\ balance_sheets'[c].extra_slot_costs
                    = balance_sheets[c].extra_slot_costs]_vars

C20_Witness ==
    /\ op.name = "process_epoch"
    /\ op.auction.result = "ok"
    /\ op.auction.decision = "miss slot"
    /\ op.result = "RuntimeError"
    /\ op.auction.payers # <<>>
    /\ op.reveal_side[Len(op.reveal_side)] # op.bribe_taker
    /\ runner.last_slot_proposer = op.bribe_taker
    /\ \A c \in DOMAIN balance_sheets :
         balance_sheets[c].extra_slot_earnings = 0 /\ balance_sheets[c].extra_slot_costs = 0

\* C21: constructing a Runner without an initial_last_slot_proposer succeeds
\* and sets last_slot_proposer to a participant of the market; constructing
\* it with a participant sets last_slot_proposer to that cluster.
C21_RunnerInitChoosesProposer ==
    [][op'.name = "Runner.__init__"
       => /\ op'.initial_last_slot_proposer = NoCluster
               => /\ op'.result = "ok"
                  /\ runner' # NoRunner
                  /\ runner'.last_slot_proposer \in Range(participants)
          /\ op'.initial_last_slot_proposer \in Range(participants)
               => /\ op'.result = "ok"
                  /\ runner'.last_slot_proposer = op'.initial_last_slot_proposer]_vars

\* C22: Market.__init__ called with both initial_bids and initial_bid_func,
\* or with initial_balances and no pay_for_initial_bids, raises ValueError
\* and no market comes to exist: no state is written and no operation of the
\* market is enabled afterwards.
C22_ConflictingOptionsRejected ==
    /\ [][(/\ op'.name = "Market.__init__"
           /\ \/ op'.initial_bids # None /\ op'.initial_bid_func # None
              \/ op'.initial_balances # None /\ op'.pay_for_initial_bids = "None")
          => /\ op'.result = "ValueError"
             /\ market_class' = "none"
             /\ UNCHANGED marketVars]_vars
    /\ []((op.name = "Market.__init__" /\ op.result = "ValueError")
           => /\ market_class = "none"
              /\ ~ENABLED MarketInit
              /\ ~Driven)

C22_Witness ==
    /\ op.name = "Market.__init__"
    /\ op.result = "ValueError"
    /\ op.initial_bids = None
    /\ op.initial_balances # None
    /\ op.pay_for_initial_bids = "None"
    /\ market_class = "none"

\* C23: no Runner exists without an interest rate: a construction with
\* locked_capital_cost_per_epoch None fails at once, so the first interest
\* accrual of a constructed Runner never fails for lack of a rate.
C23_NoRunnerWithoutRate ==
    /\ [](runner # NoRunner => runner.locked_capital_cost_per_epoch # None)
    /\ [][(op'.name = "Runner.__init__" /\ op'.locked_capital_cost_per_epoch = None)
          => op'.result = "ValueError" /\ runner' = NoRunner]_vars

\* the number of clusters the items of a stake map ask for
RECURSIVE SumOfCounts(_)
SumOfCounts(items) ==
    IF items = <<>> THEN 0 ELSE Head(items).count.count + SumOfCounts(Tail(items))

\* the reputation factor an item of the stake map gives its clusters
FactorOf(item, reputation_factor) ==
    IF item.count.type = "int" THEN reputation_factor
    ELSE item.count.reputation_factor

\* C24: get_clusters() of the distribution built from a stake map has
\* sum-of-counts clusters, for every item count-many clusters of its size,
\* all with the item's reputation factor (the default where the value is a
\* plain count), in ascending order of number_of_validators and then of
\* reputation_factor, and every order of the map's keys gives the same list.
C24_ClustersOfStakeMap ==
    op.name = "make_stake_distribution_from_map"
    => LET d == dists[Len(dists)]
           clusters == d.clusters
       IN  /\ Len(clusters) = SumOfCounts(op.stake_map)
           /\ \A k \in 1..Len(op.stake_map) :
                LET item == op.stake_map[k]
                    of_size == {i \in 1..Len(clusters) :
                                  clusters[i].number_of_validators = item.cluster_size}
                IN  /\ Cardinality(of_size) = item.count.count
                    /\ \A i \in of_size :
                         clusters[i].reputation_factor
                           = FactorOf(item, op.reputation_factor)
           /\ \A i, j \in 1..Len(clusters) :
                i < j => \/ clusters[i].number_of_validators
                             < clusters[j].number_of_validators
                         \/ /\ clusters[i].number_of_validators
                                = clusters[j].number_of_validators
                            /\ clusters[i].reputation_factor
                                 <= clusters[j].reputation_factor
           /\ \A reordered \in Reorderings(op.stake_map) :
                make_stake_distribution_from_map(reordered, None, op.reputation_factor,
                                                 Len(dists)).clusters = clusters

\* the scaled-down example of the docstring, {2: (1, 1), 1: (2, 2)}
C24_Witness ==
    /\ op.name = "make_stake_distribution_from_map"
    /\ op.stake_map = <<[cluster_size |-> 2, count |-> PairCount(1, 1)],
                        [cluster_size |-> 1, count |-> PairCount(2, 2)]>>
    /\ dists[1].cluster_sizes = <<1, 1, 2>>
    /\ dists[1].clusters[1].reputation_factor = 2
    /\ dists[1].clusters[3].reputation_factor = 1

\* C25: for every cluster c of every distribution built so far,
\* stake_fraction(c) is number_of_validators(c) / T with T the sum of
\* number_of_validators over the clusters of c's own distribution.
C25_StakeFractionOfOwnDistribution ==
    \A k \in 1..Len(dists) :
      \A i \in 1..Len(dists[k].clusters) :
        LET c == dists[k].clusters[i]
            T == sum([n \in 1..Len(dists[k].clusters) |->
                        dists[k].clusters[n].number_of_validators])
            fraction == stake_fraction(dists, c)
        IN  /\ fraction.result = "ok"
            /\ fraction.numerator * T = c.number_of_validators * fraction.denominator

C25_Witness ==
    /\ Len(dists) = 2
    /\ dists[1].total_number_of_validators = 5
    /\ dists[2].total_number_of_validators = 1
    /\ stake_fraction(dists, dists[1].clusters[1]).denominator = 5
    /\ stake_fraction(dists, dists[2].clusters[1]).denominator = 1

\* samplers i and j were given two different Random objects with the same
\* seed, and no other sampler was given either of them
IndependentEqualSeeds(i, j) ==
    /\ i # j
    /\ samplers[i].dist = samplers[j].dist
    /\ samplers[i].randomness_source # None
    /\ samplers[j].randomness_source # None
    /\ samplers[i].randomness_source # samplers[j].randomness_source
    /\ randoms[samplers[i].randomness_source.value].seed
         = randoms[samplers[j].randomness_source.value].seed
    /\ \A k \in 1..Len(samplers) :
         (k # i /\ k # j)
           => /\ samplers[k].randomness_source # samplers[i].randomness_source
              /\ samplers[k].randomness_source # samplers[j].randomness_source

\* C26: two samplers of one distribution over independent randomness
\* sources with equal seeds yield the same clusters position by position,
\* however the draws from them (and from other samplers) are interleaved:
\* whatever each has drawn so far, the shorter sequence is the beginning of
\* the longer one.
C26_SamplerDeterminism ==
    \A i, j \in 1..Len(samplers) :
      IndependentEqualSeeds(i, j)
        => \A n \in 1..Len(samplers[i].drawn) :
             n <= Len(samplers[j].drawn)
               => samplers[i].drawn[n] = samplers[j].drawn[n]

\* one sampler drew, the other drew twice, then the first drew again, and
\* the two clusters they drew differ
C26_Witness ==
    /\ op.name = "next"
    /\ \E i, j \in 1..Len(samplers) :
         /\ IndependentEqualSeeds(i, j)
         /\ op.sampler = i
         /\ Len(samplers[i].drawn) = 2
         /\ samplers[j].drawn = samplers[i].drawn
         /\ samplers[i].drawn[1] # samplers[i].drawn[2]

\* C27: sample_sides returns two lists of EPOCH_SIZE participants each (the
\* next 2 * EPOCH_SIZE draws of the sampling stream, repeats kept).
C27_SampleSidesReturnsTwoSides ==
    op.name = "sample_sides"
    => /\ op.result = "ok"
       /\ Len(op.reveal_side.value) = EPOCH_SIZE
       /\ Len(op.miss_side.value) = EPOCH_SIZE
       /\ Range(op.reveal_side.value) \subseteq Range(participants)
       /\ Range(op.miss_side.value) \subseteq Range(participants)

\* C28: a place_bid or make_payment on one Market instance changes neither
\* the balance sheets nor the standing bids nor the epoch size that another
\* instance shows, also when both were built from the same initial_balances.
C28_InstancesDoNotInterfere ==
    [][\A k \in 1..Len(markets) :
         (op'.name \in {"place_bid", "make_payment"} /\ op'.market # k)
           => /\ sheets_of(heap', markets'[k]) = sheets_of(heap, markets[k])
              /\ markets'[k].standing_bids = markets[k].standing_bids
              /\ markets'[k].EPOCH_SIZE = markets[k].EPOCH_SIZE]_vars

\* a call of remove_duplicates has returned
Returned == op.name = "remove_duplicates" /\ op.pc = "done"

DifferenceCount(n1, n2) == IF n1 > n2 THEN n1 - n2 ELSE 0

\* C29: remove_duplicates(l1, l2) returns, and what it returns are the two
\* multiset differences under identity: every object x is in the first list
\* max(0, n1(x) - n2(x)) times and in the second max(0, n2(x) - n1(x)) times;
\* l1 and l2 are as they were handed in.
C29_RemoveDuplicates ==
    /\ <>Returned
    /\ [](Returned
           => /\ \A x \in 1..MaxObjects :
                   /\ count(op.ret[1], x)
                        = DifferenceCount(count(op.args[1], x), count(op.args[2], x))
                   /\ count(op.ret[2], x)
                        = DifferenceCount(count(op.args[2], x), count(op.args[1], x))
              /\ op.locals.l1 = op.args[1]
              /\ op.locals.l2 = op.args[2])

C29_Witness ==
    /\ Returned
    /\ op.args = <<<<2, 1>>, <<1, 1>>>>
    /\ op.ret = <<<<2>>, <<1>>>>

LosingSideValues ==
    IF op.ret.decision = "reveal"
    THEN miss_side_values(standing_bids, op.miss_side)
    ELSE reveal_side_values(standing_bids, op.reveal_side,
                            standing_bids[op.last_slot_proposer])

\* C31: with a proposer that accepts bribes, the payments returned for the
\* winning side add up to the collective bid (maximum_bid_by_side) of the
\* side that lost.
C31_WinnersPayLosingCollectiveBid ==
    (Contested /\ op.result = "ok")
    => SumOfPayments(op.ret.payments, op.ret.payers)
         = maximum_bid_by_side(LosingSideValues).value

\* C32: with a proposer that accepts bribes, all non-zero payments returned
\* are one and the same price, and no cluster is charged more than the
\* willing_to_pay of its standing bid.
C32_UniformPrice ==
    (Contested /\ op.result = "ok")
    => /\ \A c, d \in DOMAIN op.ret.payments :
            (op.ret.payments[c] # 0 /\ op.ret.payments[d] # 0)
            => op.ret.payments[c] = op.ret.payments[d]
       /\ \A c \in DOMAIN op.ret.payments :
            op.ret.payments[c] <= (IF standing_bids[c] # None
                                   THEN standing_bids[c].willing_to_pay ELSE 0)

\* C33: every bribe a process_epoch transfers meets make_payment's contract:
\* the amount is not negative and both the payer and the proposer that
\* receives it have participated = True when the epoch begins, so the epoch
\* leaves payed and received of a cluster with participated = False alone.
C33_BribesKeepPaymentContract ==
    [][(/\ op'.name = "process_epoch"
        /\ op'.auction.result = "ok"
        /\ op'.result # "KeyError")
       => /\ \A c \in DOMAIN op'.auction.payments :
               /\ op'.auction.payments[c] >= 0
               /\ balance_sheets[c].participated
               /\ balance_sheets[runner.last_slot_proposer].participated
          /\ \A c \in DOMAIN balance_sheets :
               ~balance_sheets'[c].participated
               => /\ balance_sheets'[c].payed = balance_sheets[c].payed
                  /\ balance_sheets'[c].received = balance_sheets[c].received]_vars

\* C34: a process_epoch of a Runner with an interest rate runs each of its
\* steps once and in order: after the interest the sides are sampled, one
\* auction is decided on them, its outcome is accounted and assigns
\* last_slot_proposer once (to the last cluster of the winning side), and
\* the revision of the selected subset ends the call normally.
C34_EpochRunsEveryStep ==
    [][(/\ op'.name = "process_epoch"
        /\ runner.locked_capital_cost_per_epoch # None)
       => /\ op'.auction.result = "ok"
          /\ op'.result = "ok"
          /\ runner'.last_slot_proposer
               = next_last_slot_proposer(op'.auction.decision, op'.reveal_side,
                                         op'.miss_side)]_vars

\* C35: a place_bid(None, c) for a cluster whose standing bid is already
\* None costs (0, 0, 0) and changes nothing: every field of every balance
\* sheet and every standing bid are after the call what they were before.
C35_WithdrawingNothingIsNoOp ==
    [][(/\ op'.name = "place_bid"
        /\ op'.result = "ok"
        /\ op'.bid = None
        /\ op'.old_bid = None)
       => /\ cost_for_bid(None, None) = <<0, 0, 0>>
          /\ balance_sheets' = balance_sheets
          /\ standing_bids' = standing_bids]_vars

\* C37: in every state of a constructed market, whatever arguments built it,
\* a cluster whose standing bid is not None has participated = True.
C37_BiddersHaveParticipated ==
    Constructed
    => \A c \in DOMAIN standing_bids \cap DOMAIN balance_sheets :
         standing_bids[c] # None => balance_sheets[c].participated

RECURSIVE SumOfField(_, _, _)
SumOfField(bs, field, clusters) ==
    IF clusters = <<>> THEN 0
    ELSE bs[Head(clusters)][field] + SumOfField(bs, field, Tail(clusters))

\* C36: in a market built with fresh zero balances, after any sequence of
\* make_payment and process_epoch calls the received of all participants add
\* up to the payed of all participants, also when a payer of a bribe is the
\* proposer that receives it.
C36_BribesAreZeroSum ==
    SumOfField(balance_sheets, "received", participants)
      = SumOfField(balance_sheets, "payed", participants)

C36_Witness ==
    /\ op.name = "process_epoch"
    /\ op.result = "ok"
    /\ op.bribe_taker \in Range(op.auction.payers)
    /\ Len(op.auction.payers) = 2
    /\ balance_sheets[op.bribe_taker].received > balance_sheets[op.bribe_taker].payed
    /\ \E c \in Range(participants) :
         balance_sheets[c].payed > balance_sheets[c].received + 1

\* the capital_cost values cost_for_bid can return
CapitalCosts == {cost_for_bid(old_bid, new_bid)[2] : old_bid, new_bid \in BidsOrNone}

\* C38: no operation on a constructed market writes capital_locked; where it
\* is 0, as on every fresh sheet, interest adds nothing, so capital_cost
\* changes only in a place_bid of that cluster, to the value cost_for_bid
\* returned, and holds no value that cost_for_bid does not return.
C38_CapitalLockedNeverWritten ==
    /\ [](\A c \in DOMAIN balance_sheets :
            balance_sheets[c].capital_locked = 0
            => balance_sheets[c].capital_cost \in CapitalCosts \cup {0})
    /\ [][Constructed
          => \A c \in DOMAIN balance_sheets :
               /\ balance_sheets'[c].capital_locked = balance_sheets[c].capital_locked
               /\ balance_sheets[c].capital_locked = 0
                  => balance_sheets'[c].capital_cost =
                       IF /\ op'.name = "place_bid"
                          /\ op'.result = "ok"
                          /\ op'.cluster = c
                       THEN cost_for_bid(op'.old_bid, op'.bid)[2]
                       ELSE balance_sheets[c].capital_cost]_vars

C38_Witness ==
    /\ op.name = "process_epoch"
    /\ runner.locked_capital_cost_per_epoch # None
    /\ \E c \in DOMAIN balance_sheets :
         /\ balance_sheets[c].capital_locked = 0
         /\ balance_sheets[c].capital_cost = cost_for_bid(Bid, Bid)[2]
         /\ balance_sheets[c].transaction_costs = 2 * cost_for_bid(Bid, Bid)[1]

\* C39: a process_epoch leaves the standing bid, transaction_costs,
\* reputation and participated of every cluster outside the epoch's revision
\* subset as they were; the auction and the accounting of payments and slots
\* change no standing bid.
C39_EpochRevisesOnlySelected ==
    [][op'.name = "process_epoch"
       => /\ \A c \in DOMAIN standing_bids \ Range(op'.updating) :
               standing_bids'[c] = standing_bids[c]
          /\ \A c \in DOMAIN balance_sheets \ Range(op'.updating) :
               /\ balance_sheets'[c].transaction_costs
                    = balance_sheets[c].transaction_costs
               /\ balance_sheets'[c].reputation = balance_sheets[c].reputation
               /\ balance_sheets'[c].participated = balance_sheets[c].participated]_vars

C39_Witness ==
    /\ op.name = "process_epoch"
    /\ op.auction.result = "ok"
    /\ op.auction.payers = <<get_clusters[2], get_clusters[1]>>
    /\ op.updating = <<get_clusters[1]>>
    /\ standing_bids[get_clusters[2]] = Bid
    /\ get_clusters[2] \in DOMAIN balance_sheets
    /\ balance_sheets[get_clusters[2]].capital_locked > 0
    /\ balance_sheets[get_clusters[2]].payed = UsedBalance.payed + MaxAmount

====
